---- MODULE Spec2Model ----
(***************************************************************************)
(* Model of the CodeVF LangChain integration: the HumanInTheLoop wrapper   *)
(* (langchain_human_in_the_loop/tool.py), the CodeVFReviewTool direct tool *)
(* (langchain_codevf/tool.py) and the command line entry point             *)
(* (langchain_human_in_the_loop/cli.py).                                   *)
(*                                                                         *)
(* Python values are tagged records, so that None, booleans, numbers and   *)
(* strings stay distinguishable the way isinstance() distinguishes them.   *)
(* Status strings are sequences of characters (str.lower works on          *)
(* characters); time is counted in whole seconds.                          *)
(***************************************************************************)
EXTENDS Integers, Sequences, FiniteSets, TLC

VARIABLES
    frontend,   \* which front-end this run exercises: "hitl", "direct", "cli"
    argv,       \* CLI: the parsed command line and environment (raw strings)
    ctorArgs,   \* the arguments handed to the constructor
    inst,       \* the constructed instance: its fields, or the constructor's error
    cli,        \* CLI: position in main() and its exit code
    now,        \* last value of the monotonic clock
    backend,    \* number of tasks.create / tasks.retrieve calls the backend received
    pc,         \* per invocation: position in _run
    task,       \* per invocation: the task returned by tasks.create
    start,      \* per invocation: the start timestamp
    current,    \* per invocation: the task returned by the last tasks.retrieve
    outcome,    \* per invocation: the value returned or the exception raised
    awaited,    \* per invocation: what the caller awaiting ainvoke received
    log,        \* per invocation: the calls made so far, in order
    elapsedSeen,\* per invocation: the values the local `elapsed` has taken, in order
    env,        \* the answers the backend and the clock may give in this run
    invokeArgs, \* per invocation: the attachments and tag_id handed to invoke
    prepared,   \* per invocation: _run's locals attachment_payload, effective_tag_id
    createCall, \* per invocation: what tasks.create received, and the id it returned
    streams,    \* CLI: what main() printed on stdout and on stderr
    clockSeen,  \* per invocation: every reading of the monotonic clock
    norm        \* attachment normalizer applied on its own: input and results

vars == <<frontend, argv, ctorArgs, inst, cli, now, backend,
          pc, task, start, current, outcome, log, elapsedSeen,
          env, invokeArgs, prepared, createCall, streams, clockSeen, norm, awaited>>

----------------------------------------------------------------------------
(* Python values *)

None == [kind |-> "none"]
Num(n) == [kind |-> "num", val |-> n]
Bool(b) == [kind |-> "bool", val |-> b]
Str(chars) == [kind |-> "str", text |-> chars]
\* The float that is not a number: every comparison with it is false.
NaN == [kind |-> "nan"]

----------------------------------------------------------------------------
(* Bounds of the model *)

NumInvocations == 2
MaxPolls == 3

Invocations == 1..NumInvocations

\* Seconds the monotonic clock may have advanced by when it is read.
Advances == {0, 3, 300}

----------------------------------------------------------------------------
(* Program constants *)

DEFAULT_TIMEOUT_PER_CREDIT_SECONDS == 2
DEFAULT_TIMEOUT_BUFFER_SECONDS == 300
INFINITE_TIMEOUT_SENTINEL == -1
DirectDefaultTimeout == 300
DefaultPollInterval == 2

----------------------------------------------------------------------------
(* Strings: status words as character sequences, str.lower *)

UpperAlphabet ==
    <<"A","B","C","D","E","F","G","H","I","J","K","L","M",
      "N","O","P","Q","R","S","T","U","V","W","X","Y","Z">>
LowerAlphabet ==
    <<"a","b","c","d","e","f","g","h","i","j","k","l","m",
      "n","o","p","q","r","s","t","u","v","w","x","y","z">>

LowerChar(c) ==
    IF \E k \in 1..26 : UpperAlphabet[k] = c
    THEN LowerAlphabet[CHOOSE k \in 1..26 : UpperAlphabet[k] = c]
    ELSE c

Lower(s) == [k \in 1..Len(s) |-> LowerChar(s[k])]

completed == <<"c","o","m","p","l","e","t","e","d">>
failed == <<"f","a","i","l","e","d">>
canceled == <<"c","a","n","c","e","l","e","d">>
cancelled == <<"c","a","n","c","e","l","l","e","d">>
expired == <<"e","x","p","i","r","e","d">>
approved == <<"a","p","p","r","o","v","e","d">>
pending == <<"p","e","n","d","i","n","g">>
COMPLETED == <<"C","O","M","P","L","E","T","E","D">>
Failed == <<"F","a","i","l","e","d">>
Processing == <<"P","r","o","c","e","s","s","i","n","g">>

----------------------------------------------------------------------------
(* Numeric text: what int(raw) and float(raw) accept among the texts used   *)
(* here (an optional minus sign followed by decimal digits).                *)

DigitChars == <<"0","1","2","3","4","5","6","7","8","9">>

IsDigit(c) == \E k \in 1..10 : DigitChars[k] = c
DigitVal(c) == (CHOOSE k \in 1..10 : DigitChars[k] = c) - 1

RECURSIVE DigitsVal(_)
DigitsVal(chars) ==
    IF Len(chars) = 0 THEN 0
    ELSE 10 * DigitsVal(SubSeq(chars, 1, Len(chars) - 1)) + DigitVal(chars[Len(chars)])

IsIntLiteral(chars) ==
    LET body == IF Len(chars) > 0 /\ chars[1] = "-" THEN Tail(chars) ELSE chars
    IN  Len(body) > 0 /\ \A k \in 1..Len(body) : IsDigit(body[k])

ParseInt(chars) ==
    IF chars[1] = "-" THEN 0 - DigitsVal(Tail(chars)) ELSE DigitsVal(chars)

Ok(v) == [ok |-> TRUE, val |-> v]
Raise(e) == [ok |-> FALSE, exc |-> e]

----------------------------------------------------------------------------
(* Timeout resolution (langchain_human_in_the_loop/tool.py) *)

\* float(value) is the NaN: for a NaN, and for the text nan in any letter case.
FloatIsNaN(value) ==
    \/ value.kind = "nan"
    \/ value.kind = "str" /\ Lower(value.text) = <<"n", "a", "n">>

\* _coerce_float: bool is refused although it is an int; float() of a number is
\* exact for every whole number of seconds below 2^53.
_coerce_float(value) ==
    IF value.kind = "bool" THEN Raise("ValueError")
    ELSE IF value.kind = "num" THEN Ok(value.val)
    ELSE IF FloatIsNaN(value) THEN Ok(NaN)
    ELSE IF value.kind = "str" /\ IsIntLiteral(value.text) THEN Ok(ParseInt(value.text))
    ELSE Raise("ValueError")

\* Variant: one second per credit instead of two.
_compute_default_timeout_seconds_OnePerCredit(max_credits) ==
    IF max_credits.kind \in {"none", "bool"} THEN Raise("ValueError")
    ELSE IF max_credits.kind = "num"
         THEN Ok(Num(max_credits.val + DEFAULT_TIMEOUT_BUFFER_SECONDS))
    ELSE IF max_credits.kind = "str" /\ IsIntLiteral(max_credits.text)
         THEN Ok(Num(ParseInt(max_credits.text) + DEFAULT_TIMEOUT_BUFFER_SECONDS))
    ELSE Raise("ValueError")

\* Variant: the isinstance(max_credits, bool) test is missing, so int(True) = 1 is used.
_compute_default_timeout_seconds_BoolAsInt(max_credits) ==
    IF max_credits.kind = "none" THEN Raise("ValueError")
    ELSE IF max_credits.kind = "bool"
         THEN Ok(Num((DEFAULT_TIMEOUT_PER_CREDIT_SECONDS * (IF max_credits.val THEN 1 ELSE 0))
                     + DEFAULT_TIMEOUT_BUFFER_SECONDS))
    ELSE IF max_credits.kind = "num"
         THEN Ok(Num((DEFAULT_TIMEOUT_PER_CREDIT_SECONDS * max_credits.val)
                     + DEFAULT_TIMEOUT_BUFFER_SECONDS))
    ELSE IF max_credits.kind = "str" /\ IsIntLiteral(max_credits.text)
         THEN Ok(Num((DEFAULT_TIMEOUT_PER_CREDIT_SECONDS * ParseInt(max_credits.text))
                     + DEFAULT_TIMEOUT_BUFFER_SECONDS))
    ELSE Raise("ValueError")

_compute_default_timeout_seconds(max_credits) ==
    IF max_credits.kind = "none" THEN Raise("ValueError")
    ELSE IF max_credits.kind = "bool" THEN Raise("ValueError")
    ELSE LET max_credits_value ==
                 IF max_credits.kind = "num" THEN Ok(max_credits.val)
                 ELSE IF max_credits.kind = "str" /\ IsIntLiteral(max_credits.text)
                      THEN Ok(ParseInt(max_credits.text))
                 ELSE Raise("ValueError")
         IN  IF ~max_credits_value.ok THEN Raise("ValueError")
             ELSE Ok(Num((DEFAULT_TIMEOUT_PER_CREDIT_SECONDS * max_credits_value.val)
                         + DEFAULT_TIMEOUT_BUFFER_SECONDS))

\* Variant: the comparison with INFINITE_TIMEOUT_SENTINEL is missing.
_resolve_timeout_seconds_NoSentinel(timeout, max_credits) ==
    IF timeout.kind = "none" THEN _compute_default_timeout_seconds(max_credits)
    ELSE LET timeout_value == _coerce_float(timeout)
         IN  IF ~timeout_value.ok THEN timeout_value
             ELSE IF timeout_value.val <= 0 THEN Raise("ValueError")
             ELSE Ok(Num(timeout_value.val))

\* Variant: only negative values are refused (< 0 instead of <= 0).
_resolve_timeout_seconds_ZeroAllowed(timeout, max_credits) ==
    IF timeout.kind = "none" THEN _compute_default_timeout_seconds(max_credits)
    ELSE LET timeout_value == _coerce_float(timeout)
         IN  IF ~timeout_value.ok THEN timeout_value
             ELSE IF timeout_value.val = INFINITE_TIMEOUT_SENTINEL THEN Ok(None)
             ELSE IF timeout_value.val < 0 THEN Raise("ValueError")
             ELSE Ok(Num(timeout_value.val))

\* A NaN is equal to no sentinel and is not <= 0: it is returned as it is.
_resolve_timeout_seconds(timeout, max_credits) ==
    IF timeout.kind = "none" THEN _compute_default_timeout_seconds(max_credits)
    ELSE IF FloatIsNaN(timeout) THEN Ok(NaN)
    ELSE LET timeout_value == _coerce_float(timeout)
         IN  IF ~timeout_value.ok THEN timeout_value
             ELSE IF timeout_value.val = INFINITE_TIMEOUT_SENTINEL THEN Ok(None)
             ELSE IF timeout_value.val <= 0 THEN Raise("ValueError")
             ELSE Ok(Num(timeout_value.val))

\* _format_timeout_for_log and _format_elapsed_time, for whole seconds.
_format_timeout_for_log(timeout) ==
    IF timeout.kind = "none" THEN "infinite"
    ELSE IF timeout.kind = "nan" THEN "nans"
    ELSE ToString(timeout.val) \o "s"

_format_elapsed_time(elapsed) == ToString(elapsed) \o "s"

\* str() of a float holding a whole number, as an f-string renders self.timeout.
FloatRepr(n) == ToString(n) \o ".0"

----------------------------------------------------------------------------
(* Tasks as the backend returns them, and the result formatters.            *)
(* Free text (messages, file names, output) is a TLA+ string.               *)

Text(t) == [kind |-> "str", text |-> t]

Deliverable(file_name, url) == [file_name |-> file_name, url |-> url]

TaskResult(message, deliverables) ==
    [kind |-> "result", message |-> message, deliverables |-> deliverables]

TaskResponse(id, status, result) == [id |-> id, status |-> status, result |-> result]

NoTask == [id |-> "", status |-> <<>>, result |-> None]

\* Truthiness of task.result, task.result.message and task.result.deliverables.
HasMessage(t) ==
    t.result.kind = "result" /\ t.result.message.kind = "str" /\ t.result.message.text # ""
HasDeliverables(t) ==
    t.result.kind = "result" /\ Len(t.result.deliverables) > 0

RECURSIVE DeliverableLines(_)
DeliverableLines(deliverables) ==
    IF Len(deliverables) = 0 THEN ""
    ELSE "\n- " \o Head(deliverables).file_name \o ": " \o Head(deliverables).url
         \o DeliverableLines(Tail(deliverables))

\* Variant: a failed task has no fallback text of its own.
_extract_output_NoFailedText(t) ==
    IF HasMessage(t) THEN t.result.message.text
    ELSE IF HasDeliverables(t)
         THEN "CodeVF task completed. Deliverables:" \o DeliverableLines(t.result.deliverables)
    ELSE IF Lower(t.status) \in {canceled, cancelled, expired} THEN "CodeVF task was cancelled."
    ELSE "CodeVF task completed without a text response."

\* Variant: the deliverable listing is preferred to the message.
_extract_output_DeliverablesFirst(t) ==
    IF HasDeliverables(t)
    THEN "CodeVF task completed. Deliverables:" \o DeliverableLines(t.result.deliverables)
    ELSE IF HasMessage(t) THEN t.result.message.text
    ELSE IF Lower(t.status) = failed THEN "CodeVF task failed without a text response."
    ELSE IF Lower(t.status) \in {canceled, cancelled, expired} THEN "CodeVF task was cancelled."
    ELSE "CodeVF task completed without a text response."

\* _extract_output: the message, the deliverable listing, or a fallback text.
_extract_output(t) ==
    IF HasMessage(t) THEN t.result.message.text
    ELSE IF HasDeliverables(t)
         THEN "CodeVF task completed. Deliverables:" \o DeliverableLines(t.result.deliverables)
    ELSE IF Lower(t.status) = failed THEN "CodeVF task failed without a text response."
    ELSE IF Lower(t.status) \in {canceled, cancelled, expired} THEN "CodeVF task was cancelled."
    ELSE "CodeVF task completed without a text response."

\* Variant: "failed" is missing from the statuses mapped to "cancelled".
_format_hitl_result_FailedRaw(t) ==
    LET status == Lower(t.status)
        output == _extract_output(t)
    IN  IF status = completed THEN [status |-> approved, output |-> output]
        ELSE IF status \in {canceled, cancelled, expired}
             THEN [status |-> cancelled, output |-> output]
        ELSE [status |-> status, output |-> output]

\* Variant: "expired" is missing from the statuses mapped to "cancelled".
_format_hitl_result_ExpiredRaw(t) ==
    LET status == Lower(t.status)
        output == _extract_output(t)
    IN  IF status = completed THEN [status |-> approved, output |-> output]
        ELSE IF status \in {canceled, cancelled, failed}
             THEN [status |-> cancelled, output |-> output]
        ELSE [status |-> status, output |-> output]

_format_hitl_result(t) ==
    LET status == Lower(t.status)
        output == _extract_output(t)
    IN  IF status = completed THEN [status |-> approved, output |-> output]
        ELSE IF status \in {canceled, cancelled, expired, failed}
             THEN [status |-> cancelled, output |-> output]
        ELSE [status |-> status, output |-> output]

\* Variant: a message is returned whatever the status.
_format_result_MessageFirst(t) ==
    LET status == Lower(t.status)
    IN  IF HasMessage(t) THEN Ok(t.result.message.text)
        ELSE IF status # completed THEN Raise("RuntimeError")
        ELSE Ok("CodeVF task completed without a text response.")

\* CodeVFReviewTool._format_result: a string, or RuntimeError.
_format_result(t) ==
    LET status == Lower(t.status)
    IN  IF status # completed THEN Raise("RuntimeError")
        ELSE IF HasMessage(t) THEN Ok(t.result.message.text)
        ELSE IF HasDeliverables(t)
             THEN Ok("CodeVF task completed. Deliverables:"
                     \o DeliverableLines(t.result.deliverables))
        ELSE Ok("CodeVF task completed without a text response.")

\* The terminal set of each poll loop.
HitlTerminalStatuses == {completed, failed, canceled, cancelled, expired}
DirectTerminalStatuses == {completed, failed, canceled, cancelled, expired}

\* Variant: every status other than "pending" ends the loop.
HitlIsTerminal_NotPending(status) == Lower(status) # pending

HitlIsTerminal(status) == Lower(status) \in HitlTerminalStatuses

\* Variant: the direct tool keeps polling an expired task.
DirectIsTerminal_NoExpired(status) == Lower(status) \in DirectTerminalStatuses \ {expired}

DirectIsTerminal(status) == Lower(status) \in DirectTerminalStatuses

\* Variant: the deadline test is >= instead of >.
HitlDeadlineExceeded_AtLeast(timeout, elapsed) == timeout.kind # "none" /\ elapsed >= timeout.val

\* The deadline test of each loop, on the elapsed time just computed; no
\* elapsed time is greater than a NaN.
HitlDeadlineExceeded(timeout, elapsed) ==
    timeout.kind # "none" /\ timeout.kind # "nan" /\ elapsed > timeout.val
DirectDeadlineExceeded(timeout, elapsed) == elapsed > timeout.val

\* The TimeoutError messages, as the parts of their f-strings.
HitlTimeoutMessage(id, elapsed, timeout) ==
    <<"Invoke timed out after ", _format_elapsed_time(elapsed),
      " while waiting for CodeVF task '", id,
      "' (configured timeout: ", _format_timeout_for_log(timeout),
      "). Increase the timeout with --timeout <seconds> or disable it with --timeout -1.">>

DirectTimeoutMessage(id, timeout) ==
    <<"CodeVF task '", id, "' did not complete within ", FloatRepr(timeout.val), " seconds.">>

----------------------------------------------------------------------------
(* What the backend may answer *)

NonTerminalWords == {pending, Processing}
TerminalWords == {completed, COMPLETED, failed, Failed, canceled, cancelled, expired}
StatusWords == NonTerminalWords \cup TerminalWords

CreateStatusWords == {pending, completed}

Results ==
    { None,
      TaskResult(Text("All good"), <<>>),
      TaskResult(None, <<Deliverable("out.txt", "https://x/out.txt")>>),
      TaskResult(Text(""), <<>>) }

TaskId(n) == "task_" \o ToString(n)

\* Every answer above, and every clock advance.
FullEnv ==
    [statuses |-> StatusWords, createStatuses |-> CreateStatusWords,
     results |-> Results, advances |-> Advances]

----------------------------------------------------------------------------
(* Command line (langchain_human_in_the_loop/cli.py) *)

\* _parse_timeout_value, the argparse type of --timeout: float(raw), then the
\* tests value == -1 and value <= 0, which a NaN both fails.
_parse_timeout_value(raw) ==
    IF FloatIsNaN(raw) THEN Ok(NaN)
    ELSE IF ~IsIntLiteral(raw.text) THEN Raise("ArgumentTypeError")
    ELSE LET value == ParseInt(raw.text)
         IN  IF value = -1 THEN Ok(Num(value))
             ELSE IF value <= 0 THEN Raise("ArgumentTypeError")
             ELSE Ok(Num(value))

\* type=int and type=float of argparse, and _read_int_env: absent stays None.
ParseOptional(raw) ==
    IF raw.kind = "none" THEN Ok(None)
    ELSE IF IsIntLiteral(raw.text) THEN Ok(Num(ParseInt(raw.text)))
    ELSE Raise("SystemExit")

\* main() up to the construction of HumanInTheLoop: the constructor's
\* arguments, or the argparse error (exit code 2).
CliArguments(a) ==
    LET project_arg == ParseOptional(a.project_id)
        credit_arg == ParseOptional(a.max_credit)
        poll_arg == ParseOptional(a.poll_interval)
        timeout_arg == IF a.timeout.kind = "none" THEN Ok(None)
                       ELSE _parse_timeout_value(a.timeout)
        project_env == ParseOptional(a.env_project_id)
        credit_env == ParseOptional(a.env_max_credits)
    IN  IF ~project_arg.ok \/ ~credit_arg.ok \/ ~poll_arg.ok \/ ~timeout_arg.ok
        THEN Raise("SystemExit")
        ELSE IF project_arg.val.kind = "none" /\ ~project_env.ok THEN Raise("SystemExit")
        ELSE LET project_id == IF project_arg.val.kind = "none"
                               THEN project_env.val ELSE project_arg.val
             IN  IF project_id.kind = "none" THEN Raise("SystemExit")
                 ELSE IF credit_arg.val.kind = "none" /\ ~credit_env.ok THEN Raise("SystemExit")
                 ELSE LET max_credit == IF credit_arg.val.kind = "none"
                                        THEN credit_env.val ELSE credit_arg.val
                          poll_interval == IF poll_arg.val.kind = "none"
                                           THEN Num(DefaultPollInterval) ELSE poll_arg.val
                      IN  IF max_credit.kind = "none" THEN Raise("SystemExit")
                          ELSE IF max_credit.val <= 0 THEN Raise("SystemExit")
                          ELSE IF poll_interval.val <= 0 THEN Raise("SystemExit")
                          ELSE Ok([project_id |-> project_id,
                                   max_credits |-> max_credit,
                                   poll_interval |-> poll_interval,
                                   timeout |-> timeout_arg.val])

----------------------------------------------------------------------------
(* Attachments *)

\* An AttachmentInput object; content and base64 are None or a text.
AttachmentInput(file_name, mime_type, content, base64) ==
    [kind |-> "AttachmentInput", file_name |-> file_name, mime_type |-> mime_type,
     content |-> content, base64 |-> base64]

\* A dict: a function from its keys to its values.
Dict(map) == [kind |-> "dict", map |-> map]

\* A value that is neither an AttachmentInput nor a dict.
Other(v) == [kind |-> "other", value |-> v]

\* A list, and what Python takes for false in `if not attachments`.
List(items) == [kind |-> "list", items |-> items]
Falsy(v) == v.kind = "none" \/ (v.kind = "list" /\ v.items = <<>>)

\* AttachmentInput.to_mapping
to_mapping(a) ==
    LET keys == {"fileName", "mimeType"}
                  \cup (IF a.content.kind # "none" THEN {"content"} ELSE {})
                  \cup (IF a.base64.kind # "none" THEN {"base64"} ELSE {})
    IN  Dict([k \in keys |->
                CASE k = "fileName" -> a.file_name
                  [] k = "mimeType" -> a.mime_type
                  [] k = "content" -> a.content.text
                  [] k = "base64" -> a.base64.text])

\* The dict branch of _normalize_attachments: rebuilt when a snake_case key is
\* present (a camelCase key assigned later wins), passed through otherwise.
NormalizeDict(item) ==
    LET m == item.map
        has(k) == k \in DOMAIN m
        keys == (IF has("file_name") \/ has("fileName") THEN {"fileName"} ELSE {})
                  \cup (IF has("mime_type") \/ has("mimeType") THEN {"mimeType"} ELSE {})
                  \cup (IF has("content") THEN {"content"} ELSE {})
                  \cup (IF has("base64") THEN {"base64"} ELSE {})
    IN  IF has("file_name") \/ has("mime_type")
        THEN Dict([k \in keys |->
                     CASE k = "fileName" ->
                              IF has("fileName") THEN m["fileName"] ELSE m["file_name"]
                       [] k = "mimeType" ->
                              IF has("mimeType") THEN m["mimeType"] ELSE m["mime_type"]
                       [] OTHER -> m[k]])
        ELSE item

\* Variant: an empty list is normalized to an empty list.
_normalize_attachments_EmptyList(attachments) ==
    IF attachments.kind = "none" THEN Ok(None)
    ELSE IF \E k \in 1..Len(attachments.items) :
                attachments.items[k].kind \notin {"AttachmentInput", "dict"}
         THEN Raise("TypeError")
         ELSE Ok(List([k \in 1..Len(attachments.items) |->
                         IF attachments.items[k].kind = "AttachmentInput"
                         THEN to_mapping(attachments.items[k])
                         ELSE NormalizeDict(attachments.items[k])]))

\* Variant: an item of another type is skipped.
_normalize_attachments_SkipsOthers(attachments) ==
    IF Falsy(attachments) THEN Ok(None)
    ELSE LET good == SelectSeq(attachments.items,
                               LAMBDA x : x.kind \in {"AttachmentInput", "dict"})
         IN  Ok(List([k \in 1..Len(good) |->
                        IF good[k].kind = "AttachmentInput"
                        THEN to_mapping(good[k])
                        ELSE NormalizeDict(good[k])]))

\* _normalize_attachments: None for nothing, the list of mappings, or the
\* TypeError of the first item that is neither an AttachmentInput nor a dict.
_normalize_attachments(attachments) ==
    IF Falsy(attachments) THEN Ok(None)
    ELSE IF \E k \in 1..Len(attachments.items) :
                attachments.items[k].kind \notin {"AttachmentInput", "dict"}
         THEN Raise("TypeError")
         ELSE Ok(List([k \in 1..Len(attachments.items) |->
                         IF attachments.items[k].kind = "AttachmentInput"
                         THEN to_mapping(attachments.items[k])
                         ELSE NormalizeDict(attachments.items[k])]))

\* CodeVFReviewTool._run, line 109: every item is asked for its to_mapping.
DirectAttachmentPayload(attachments) ==
    IF Falsy(attachments) THEN Ok(None)
    ELSE IF \E k \in 1..Len(attachments.items) :
                attachments.items[k].kind # "AttachmentInput"
         THEN Raise("AttributeError")
         ELSE Ok(List([k \in 1..Len(attachments.items) |->
                         to_mapping(attachments.items[k])]))

----------------------------------------------------------------------------
(* Inputs *)

Unset == [kind |-> "unset"]

HitlTimeoutArgs ==
    {None, Num(-1), Num(0), Num(-5), Num(5), Bool(TRUE), Str(<<"a","b","c">>)}
HitlCreditArgs ==
    {None, Bool(TRUE), Str(<<"a","b","c">>), Str(<<"2","0">>), Num(0), Num(1), Num(20), Num(-150)}

DirectTimeoutArgs == {Unset, Num(-1), Num(0), Num(5)}
DirectCreditArgs == {Num(20)}

NoArgv ==
    [project_id |-> None, env_project_id |-> None, max_credit |-> None,
     env_max_credits |-> None, timeout |-> None, poll_interval |-> None]

CliProjectChoices ==
    { <<None, None>>, <<Str(<<"1">>), None>>, <<None, Str(<<"7">>)>>, <<None, Str(<<"x">>)>> }
CliCreditChoices ==
    { <<None, None>>, <<Str(<<"2","0">>), None>>, <<Str(<<"0">>), None>>,
      <<None, Str(<<"2","0">>)>>, <<Str(<<"x">>), None>> }
CliTimeoutChoices ==
    { None, Str(<<"0">>), Str(<<"-","1">>), Str(<<"-","5">>), Str(<<"5">>),
      Str(<<"a","b","c">>) }
CliPollChoices == { None, Str(<<"0">>) }

NoArgs == [timeout |-> None, max_credits |-> None, poll_interval |-> None, tag_id |-> None]
NoCall == [entry |-> "invoke", attachments |-> None, tag_id |-> None]
NoStreams == [stdout |-> <<>>, stderr |-> <<>>]
NotNormalizing == [stage |-> "none"]
Unbuilt == [state |-> "new"]
NoOutcome == [kind |-> "none"]
Returned(v) == [kind |-> "return", value |-> v]
Raised(exc, message) == [kind |-> "raise", exc |-> exc, message |-> message]

----------------------------------------------------------------------------
(* Initial states *)

InitCommon ==
    /\ inst = Unbuilt
    /\ now = 0
    /\ backend = [created |-> 0, retrieved |-> 0]
    /\ pc = [i \in Invocations |-> "idle"]
    /\ task = [i \in Invocations |-> NoTask]
    /\ start = [i \in Invocations |-> 0]
    /\ current = [i \in Invocations |-> NoTask]
    /\ outcome = [i \in Invocations |-> NoOutcome]
    /\ awaited = [i \in Invocations |-> NoOutcome]
    /\ log = [i \in Invocations |-> <<>>]
    /\ elapsedSeen = [i \in Invocations |-> <<>>]
    /\ prepared = [i \in Invocations |-> Unset]
    /\ createCall = [i \in Invocations |-> Unset]
    /\ clockSeen = [i \in Invocations |-> <<>>]
    /\ streams = NoStreams

\* A run without attachments or tag ids, against every backend answer.
InitPlain ==
    /\ env = FullEnv
    /\ invokeArgs = [i \in Invocations |-> NoCall]
    /\ norm = NotNormalizing

InitHitl ==
    /\ frontend = "hitl"
    /\ argv = NoArgv
    /\ cli = [phase |-> "none", exit |-> None]
    /\ \E t \in HitlTimeoutArgs, c \in HitlCreditArgs :
           ctorArgs = [timeout |-> t, max_credits |-> c,
                       poll_interval |-> Num(DefaultPollInterval), tag_id |-> None]

InitDirect ==
    /\ frontend = "direct"
    /\ argv = NoArgv
    /\ cli = [phase |-> "none", exit |-> None]
    /\ \E t \in DirectTimeoutArgs, c \in DirectCreditArgs :
           ctorArgs = [timeout |-> t, max_credits |-> c,
                       poll_interval |-> Num(DefaultPollInterval), tag_id |-> None]

InitCli ==
    /\ frontend = "cli"
    /\ cli = [phase |-> "start", exit |-> None]
    /\ ctorArgs = NoArgs
    /\ \E p \in CliProjectChoices, c \in CliCreditChoices,
          t \in CliTimeoutChoices, q \in CliPollChoices :
           argv = [project_id |-> p[1], env_project_id |-> p[2],
                   max_credit |-> c[1], env_max_credits |-> c[2],
                   timeout |-> t, poll_interval |-> q]

Init == InitCommon /\ InitPlain /\ (InitHitl \/ InitDirect \/ InitCli)

----------------------------------------------------------------------------
(* Construction *)

\* HumanInTheLoop.__init__: the fields, or the ValueError of the timeout resolution.
HitlInstance(args) ==
    LET resolved == _resolve_timeout_seconds(args.timeout, args.max_credits)
    IN  IF resolved.ok
        THEN [state |-> "ready", timeout |-> resolved.val,
              max_credits |-> args.max_credits, poll_interval |-> args.poll_interval,
              tag_id |-> args.tag_id]
        ELSE [state |-> "error", exc |-> resolved.exc]

\* CodeVFReviewTool.__init__: the timeout field defaults to 300.0 and is stored as given.
DirectInstance(args) ==
    [state |-> "ready",
     timeout |-> IF args.timeout.kind = "unset" THEN Num(DirectDefaultTimeout) ELSE args.timeout,
     max_credits |-> args.max_credits, poll_interval |-> args.poll_interval,
     tag_id |-> args.tag_id]

ConstructHitl ==
    /\ frontend = "hitl"
    /\ inst.state = "new"
    /\ inst' = HitlInstance(ctorArgs)
    /\ UNCHANGED <<frontend, argv, ctorArgs, cli, now, backend,
                   pc, task, start, current, outcome, log, elapsedSeen,
                   env, invokeArgs, prepared, createCall, streams, clockSeen, norm, awaited>>

ConstructDirect ==
    /\ frontend = "direct"
    /\ inst.state = "new"
    /\ inst' = DirectInstance(ctorArgs)
    /\ UNCHANGED <<frontend, argv, ctorArgs, cli, now, backend,
                   pc, task, start, current, outcome, log, elapsedSeen,
                   env, invokeArgs, prepared, createCall, streams, clockSeen, norm, awaited>>

\* Variant: main() turns the sentinel -1 into None before the constructor sees it.
CliParse_ResolvesSentinel ==
    /\ frontend = "cli"
    /\ cli.phase = "start"
    /\ LET parsed == CliArguments(argv)
       IN  IF parsed.ok
           THEN /\ ctorArgs' = [timeout |-> IF parsed.val.timeout = Num(-1) THEN None
                                            ELSE parsed.val.timeout,
                                max_credits |-> parsed.val.max_credits,
                                poll_interval |-> parsed.val.poll_interval,
                                tag_id |-> None]
                /\ cli' = [cli EXCEPT !.phase = "parsed"]
                /\ streams' = streams
           ELSE /\ ctorArgs' = ctorArgs
                /\ cli' = [phase |-> "exited", exit |-> Num(2)]
                /\ streams' = [streams EXCEPT !.stderr = Append(@, <<"usage">>)]
    /\ UNCHANGED <<frontend, argv, inst, now, backend,
                   pc, task, start, current, outcome, log, elapsedSeen,
                   env, invokeArgs, prepared, createCall, clockSeen, norm, awaited>>

\* main(), lines 18-36: parse and validate; an argparse error exits with code 2.
CliParse ==
    /\ frontend = "cli"
    /\ cli.phase = "start"
    /\ LET parsed == CliArguments(argv)
       IN  IF parsed.ok
           THEN /\ ctorArgs' = [timeout |-> parsed.val.timeout,
                                max_credits |-> parsed.val.max_credits,
                                poll_interval |-> parsed.val.poll_interval,
                                tag_id |-> None]
                /\ cli' = [cli EXCEPT !.phase = "parsed"]
                /\ streams' = streams
           ELSE /\ ctorArgs' = ctorArgs
                /\ cli' = [phase |-> "exited", exit |-> Num(2)]
                /\ streams' = [streams EXCEPT !.stderr = Append(@, <<"usage">>)]
    /\ UNCHANGED <<frontend, argv, inst, now, backend,
                   pc, task, start, current, outcome, log, elapsedSeen,
                   env, invokeArgs, prepared, createCall, clockSeen, norm, awaited>>

\* main(), lines 38-47: a ValueError of the constructor is not caught.
CliConstruct ==
    /\ frontend = "cli"
    /\ cli.phase = "parsed"
    /\ inst' = HitlInstance(ctorArgs)
    /\ cli' = IF inst'.state = "ready" THEN [cli EXCEPT !.phase = "built"]
              ELSE [cli EXCEPT !.phase = "crashed"]
    /\ UNCHANGED <<frontend, argv, ctorArgs, now, backend,
                   pc, task, start, current, outcome, log, elapsedSeen,
                   env, invokeArgs, prepared, createCall, streams, clockSeen, norm, awaited>>

----------------------------------------------------------------------------
(* One invocation: _run of either front-end, a step per external call *)

\* The first two statements of _run: the attachment payload and the tag id.
AttachmentPayload(attachments) ==
    IF frontend = "direct" THEN DirectAttachmentPayload(attachments)
    ELSE _normalize_attachments(attachments)

\* Variant: the per-call tag id is used only when it is truthy (`tag_id or self.tag_id`).
EffectiveTagId_Truthy(tag_id) ==
    IF frontend = "direct" \/ tag_id.kind = "none" \/ tag_id = Num(0)
    THEN inst.tag_id ELSE tag_id

EffectiveTagId(tag_id) ==
    IF frontend = "direct" \/ tag_id.kind = "none" THEN inst.tag_id ELSE tag_id

\* _run entered, up to the call of tasks.create. An attachment that cannot be
\* converted ends the invocation here. The CLI calls invoke once.
RunEntered(i, attachments, tag_id) ==
    LET payload == AttachmentPayload(attachments)
    IN  IF payload.ok
        THEN /\ prepared' = [prepared EXCEPT ![i] =
                                 [attachment_payload |-> payload.val,
                                  effective_tag_id |-> EffectiveTagId(tag_id)]]
             /\ outcome' = outcome
             /\ pc' = [pc EXCEPT ![i] = "create"]
        ELSE /\ prepared' = prepared
             /\ outcome' = [outcome EXCEPT ![i] = Raised(payload.exc, <<>>)]
             /\ pc' = [pc EXCEPT ![i] = "done"]

\* invoke: _run is called with the caller's attachments and tag id.
Invoke(i) ==
    /\ inst.state = "ready"
    /\ pc[i] = "idle"
    /\ invokeArgs[i].entry = "invoke"
    /\ frontend = "cli" => cli.phase = "built"
    /\ RunEntered(i, invokeArgs[i].attachments, invokeArgs[i].tag_id)
    /\ cli' = IF frontend = "cli" THEN [cli EXCEPT !.phase = "invoked"] ELSE cli
    /\ UNCHANGED <<frontend, argv, ctorArgs, inst, now, backend,
                   task, start, current, log, elapsedSeen,
                   env, invokeArgs, createCall, streams, clockSeen, norm, awaited>>

\* ainvoke, up to the await: _run is handed to the default executor of the
\* running loop, which has not started it yet.
AInvoke(i) ==
    /\ frontend = "hitl"
    /\ inst.state = "ready"
    /\ pc[i] = "idle"
    /\ invokeArgs[i].entry = "ainvoke"
    /\ pc' = [pc EXCEPT ![i] = "executor"]
    /\ UNCHANGED <<frontend, argv, ctorArgs, inst, cli, now, backend,
                   task, start, current, outcome, log, elapsedSeen,
                   env, invokeArgs, prepared, createCall, streams, clockSeen, norm, awaited>>

\* Variant: the executor is given the prompt and the attachments only.
ExecutorArguments_NoTag(i) ==
    [attachments |-> invokeArgs[i].attachments, tag_id |-> None]

\* The positional arguments run_in_executor passes on to _run, after the prompt.
ExecutorArguments(i) ==
    [attachments |-> invokeArgs[i].attachments, tag_id |-> invokeArgs[i].tag_id]

\* A worker thread of the executor starts _run with the arguments it was given.
WorkerStart(i) ==
    /\ pc[i] = "executor"
    /\ RunEntered(i, ExecutorArguments(i).attachments, ExecutorArguments(i).tag_id)
    /\ UNCHANGED <<frontend, argv, ctorArgs, inst, cli, now, backend,
                   task, start, current, log, elapsedSeen,
                   env, invokeArgs, createCall, streams, clockSeen, norm, awaited>>

\* The await of ainvoke resumes once _run has ended in the worker: the future
\* hands over the value _run returned, or raises the exception it raised.
AwaitFuture(i) ==
    /\ invokeArgs[i].entry = "ainvoke"
    /\ pc[i] = "done"
    /\ awaited[i] = NoOutcome
    /\ awaited' = [awaited EXCEPT ![i] = outcome[i]]
    /\ UNCHANGED <<frontend, argv, ctorArgs, inst, cli, now, backend,
                   pc, task, start, current, outcome, log, elapsedSeen,
                   env, invokeArgs, prepared, createCall, streams, clockSeen, norm>>

\* The keyword arguments of tasks.create, with the id the backend answered.
CreateArguments(i, id) ==
    [max_credits |-> inst.max_credits,
     attachments |-> prepared[i].attachment_payload,
     tag_id |-> prepared[i].effective_tag_id,
     id |-> id]

\* Variant: a task that create already reports as terminal is formatted at once.
Create_TerminalShortcut(i) ==
    /\ pc[i] = "create"
    /\ \E status \in env.createStatuses :
           task' = [task EXCEPT ![i] = TaskResponse(TaskId(backend.created + 1), status, None)]
    /\ createCall' = [createCall EXCEPT ![i] = CreateArguments(i, Text(TaskId(backend.created + 1)))]
    /\ backend' = [backend EXCEPT !.created = @ + 1]
    /\ log' = [log EXCEPT ![i] = Append(@, "create")]
    /\ IF HitlIsTerminal(task'[i].status)
       THEN /\ outcome' = [outcome EXCEPT ![i] =
                               IF frontend = "direct"
                               THEN LET r == _format_result(task'[i])
                                    IN  IF r.ok THEN Returned(r.val)
                                        ELSE Raised(r.exc, <<task'[i].id, task'[i].status>>)
                               ELSE Returned(_format_hitl_result(task'[i]))]
            /\ pc' = [pc EXCEPT ![i] = "done"]
       ELSE /\ outcome' = outcome
            /\ pc' = [pc EXCEPT ![i] = "start"]
    /\ UNCHANGED <<frontend, argv, ctorArgs, inst, cli, now, start, current, elapsedSeen,
                   env, invokeArgs, prepared, streams, clockSeen, norm, awaited>>

\* tasks.create returns the new task.
Create(i) ==
    /\ pc[i] = "create"
    /\ \E status \in env.createStatuses :
           task' = [task EXCEPT ![i] = TaskResponse(TaskId(backend.created + 1), status, None)]
    /\ createCall' = [createCall EXCEPT ![i] = CreateArguments(i, Text(TaskId(backend.created + 1)))]
    /\ backend' = [backend EXCEPT !.created = @ + 1]
    /\ log' = [log EXCEPT ![i] = Append(@, "create")]
    /\ pc' = [pc EXCEPT ![i] = "start"]
    /\ UNCHANGED <<frontend, argv, ctorArgs, inst, cli, now, start, current, outcome, elapsedSeen,
                   env, invokeArgs, prepared, streams, clockSeen, norm, awaited>>

\* Variant: a first failure of tasks.create is swallowed and the call repeated.
CreateRaises_RetryOnce(i) ==
    /\ pc[i] = "create"
    /\ backend' = [backend EXCEPT !.created = @ + 1]
    /\ log' = [log EXCEPT ![i] = Append(@, "create")]
    /\ createCall' = [createCall EXCEPT ![i] = CreateArguments(i, None)]
    /\ IF log[i] = <<>>
       THEN UNCHANGED <<outcome, pc>>
       ELSE /\ outcome' = [outcome EXCEPT ![i] = Raised("BackendError", <<>>)]
            /\ pc' = [pc EXCEPT ![i] = "done"]
    /\ UNCHANGED <<frontend, argv, ctorArgs, inst, cli, now, task, start, current, elapsedSeen,
                   env, invokeArgs, prepared, streams, clockSeen, norm, awaited>>

\* tasks.create raises: the error leaves _run.
CreateRaises(i) ==
    /\ pc[i] = "create"
    /\ backend' = [backend EXCEPT !.created = @ + 1]
    /\ log' = [log EXCEPT ![i] = Append(@, "create")]
    /\ createCall' = [createCall EXCEPT ![i] = CreateArguments(i, None)]
    /\ outcome' = [outcome EXCEPT ![i] = Raised("BackendError", <<>>)]
    /\ pc' = [pc EXCEPT ![i] = "done"]
    /\ UNCHANGED <<frontend, argv, ctorArgs, inst, cli, now, task, start, current, elapsedSeen,
                   env, invokeArgs, prepared, streams, clockSeen, norm, awaited>>

\* Variant: the start timestamp is kept in one place for all invocations.
ReadStart_SharedStart(i) ==
    /\ pc[i] = "start"
    /\ \E d \in env.advances : now' = now + d
    /\ start' = [j \in Invocations |-> now']
    /\ clockSeen' = [clockSeen EXCEPT ![i] = Append(@, now')]
    /\ log' = [log EXCEPT ![i] = Append(@, "clock")]
    /\ pc' = [pc EXCEPT ![i] = "retrieve"]
    /\ UNCHANGED <<frontend, argv, ctorArgs, inst, cli, backend, task, current, outcome, elapsedSeen,
                   env, invokeArgs, prepared, createCall, streams, norm, awaited>>

\* start = time.monotonic()
ReadStart(i) ==
    /\ pc[i] = "start"
    /\ \E d \in env.advances : now' = now + d
    /\ start' = [start EXCEPT ![i] = now']
    /\ clockSeen' = [clockSeen EXCEPT ![i] = Append(@, now')]
    /\ log' = [log EXCEPT ![i] = Append(@, "clock")]
    /\ pc' = [pc EXCEPT ![i] = "retrieve"]
    /\ UNCHANGED <<frontend, argv, ctorArgs, inst, cli, backend, task, current, outcome, elapsedSeen,
                   env, invokeArgs, prepared, createCall, streams, norm, awaited>>

Retrieves(i) == Cardinality({k \in 1..Len(log[i]) : log[i][k] = "retrieve"})
Sleeps(i) == Cardinality({k \in 1..Len(log[i]) : log[i][k] = "sleep"})

IsTerminal(status) ==
    IF frontend = "direct" THEN DirectIsTerminal(status) ELSE HitlIsTerminal(status)

\* What the loop returns (or raises) for a task it found terminal.
Formatted(t) ==
    IF frontend = "direct"
    THEN LET r == _format_result(t)
         IN  IF r.ok THEN Returned(r.val) ELSE Raised(r.exc, <<t.id, t.status>>)
    ELSE Returned(_format_hitl_result(t))

DeadlineExceeded(elapsed) ==
    IF frontend = "direct" THEN DirectDeadlineExceeded(inst.timeout, elapsed)
    ELSE HitlDeadlineExceeded(inst.timeout, elapsed)

TimeoutMessage(id, elapsed) ==
    IF frontend = "direct" THEN DirectTimeoutMessage(id, inst.timeout)
    ELSE HitlTimeoutMessage(id, elapsed, inst.timeout)

\* Variant: the deadline is tested before the status of the retrieved task.
Retrieve_DeadlineFirst(i) ==
    /\ pc[i] = "retrieve"
    /\ Retrieves(i) < MaxPolls
    /\ \E status \in env.statuses, result \in env.results :
           current' = [current EXCEPT ![i] = TaskResponse(task[i].id, status, result)]
    /\ backend' = [backend EXCEPT !.retrieved = @ + 1]
    /\ log' = [log EXCEPT ![i] = Append(@, "retrieve")]
    /\ IF DeadlineExceeded(now - start[i])
       THEN /\ outcome' = [outcome EXCEPT ![i] =
                               Raised("TimeoutError", TimeoutMessage(task[i].id, now - start[i]))]
            /\ pc' = [pc EXCEPT ![i] = "done"]
       ELSE IF IsTerminal(current'[i].status)
       THEN /\ outcome' = [outcome EXCEPT ![i] = Formatted(current'[i])]
            /\ pc' = [pc EXCEPT ![i] = "done"]
       ELSE /\ outcome' = outcome
            /\ pc' = [pc EXCEPT ![i] = "deadline"]
    /\ UNCHANGED <<frontend, argv, ctorArgs, inst, cli, now, task, start, elapsedSeen,
                   env, invokeArgs, prepared, createCall, streams, clockSeen, norm, awaited>>

\* Variant: the result of a terminal task is produced but the loop goes on.
Retrieve_KeepsPolling(i) ==
    /\ pc[i] = "retrieve"
    /\ Retrieves(i) < MaxPolls
    /\ \E status \in env.statuses, result \in env.results :
           current' = [current EXCEPT ![i] = TaskResponse(task[i].id, status, result)]
    /\ backend' = [backend EXCEPT !.retrieved = @ + 1]
    /\ log' = [log EXCEPT ![i] = Append(@, "retrieve")]
    /\ outcome' = IF IsTerminal(current'[i].status)
                  THEN [outcome EXCEPT ![i] = Formatted(current'[i])]
                  ELSE outcome
    /\ pc' = [pc EXCEPT ![i] = "deadline"]
    /\ UNCHANGED <<frontend, argv, ctorArgs, inst, cli, now, task, start, elapsedSeen,
                   env, invokeArgs, prepared, createCall, streams, clockSeen, norm, awaited>>

\* current = tasks.retrieve(task.id); a terminal status returns the formatted result.
Retrieve(i) ==
    /\ pc[i] = "retrieve"
    /\ Retrieves(i) < MaxPolls
    /\ \E status \in env.statuses, result \in env.results :
           current' = [current EXCEPT ![i] = TaskResponse(task[i].id, status, result)]
    /\ backend' = [backend EXCEPT !.retrieved = @ + 1]
    /\ log' = [log EXCEPT ![i] = Append(@, "retrieve")]
    /\ IF IsTerminal(current'[i].status)
       THEN /\ outcome' = [outcome EXCEPT ![i] = Formatted(current'[i])]
            /\ pc' = [pc EXCEPT ![i] = "done"]
       ELSE /\ outcome' = outcome
            /\ pc' = [pc EXCEPT ![i] = "deadline"]
    /\ UNCHANGED <<frontend, argv, ctorArgs, inst, cli, now, task, start, elapsedSeen,
                   env, invokeArgs, prepared, createCall, streams, clockSeen, norm, awaited>>

\* tasks.retrieve raises: the error leaves _run.
RetrieveRaises(i) ==
    /\ pc[i] = "retrieve"
    /\ Retrieves(i) < MaxPolls
    /\ backend' = [backend EXCEPT !.retrieved = @ + 1]
    /\ log' = [log EXCEPT ![i] = Append(@, "retrieve")]
    /\ outcome' = [outcome EXCEPT ![i] = Raised("BackendError", <<>>)]
    /\ pc' = [pc EXCEPT ![i] = "done"]
    /\ UNCHANGED <<frontend, argv, ctorArgs, inst, cli, now, task, start, current, elapsedSeen,
                   env, invokeArgs, prepared, createCall, streams, clockSeen, norm, awaited>>

\* Variant: the loop polls again at once when the deadline has not passed.
CheckDeadline_NoSleep(i) ==
    /\ pc[i] = "deadline"
    /\ \E d \in env.advances : now' = now + d
    /\ clockSeen' = [clockSeen EXCEPT ![i] = Append(@, now')]
    /\ log' = [log EXCEPT ![i] = Append(@, "clock")]
    /\ LET elapsed == now' - start[i]
       IN  IF DeadlineExceeded(elapsed)
           THEN /\ outcome' = [outcome EXCEPT ![i] =
                                   Raised("TimeoutError", TimeoutMessage(task[i].id, elapsed))]
                /\ pc' = [pc EXCEPT ![i] = "done"]
           ELSE /\ outcome' = outcome
                /\ pc' = [pc EXCEPT ![i] = "retrieve"]
    /\ elapsedSeen' = [elapsedSeen EXCEPT ![i] = Append(@, now' - start[i])]
    /\ UNCHANGED <<frontend, argv, ctorArgs, inst, cli, backend, task, start, current,
                   env, invokeArgs, prepared, createCall, streams, norm, awaited>>

\* elapsed = time.monotonic() - start, then the deadline test.
CheckDeadline(i) ==
    /\ pc[i] = "deadline"
    /\ \E d \in env.advances : now' = now + d
    /\ clockSeen' = [clockSeen EXCEPT ![i] = Append(@, now')]
    /\ log' = [log EXCEPT ![i] = Append(@, "clock")]
    /\ LET elapsed == now' - start[i]
       IN  IF DeadlineExceeded(elapsed)
           THEN /\ outcome' = [outcome EXCEPT ![i] =
                                   Raised("TimeoutError", TimeoutMessage(task[i].id, elapsed))]
                /\ pc' = [pc EXCEPT ![i] = "done"]
           ELSE /\ outcome' = outcome
                /\ pc' = [pc EXCEPT ![i] = "sleep"]
    /\ elapsedSeen' = [elapsedSeen EXCEPT ![i] = Append(@, now' - start[i])]
    /\ UNCHANGED <<frontend, argv, ctorArgs, inst, cli, backend, task, start, current,
                   env, invokeArgs, prepared, createCall, streams, norm, awaited>>

\* Variant: the clock stands still while the invocation sleeps.
Sleep_ClockFrozen(i) ==
    /\ pc[i] = "sleep"
    /\ now' = now
    /\ log' = [log EXCEPT ![i] = Append(@, "sleep")]
    /\ pc' = [pc EXCEPT ![i] = "retrieve"]
    /\ UNCHANGED <<frontend, argv, ctorArgs, inst, cli, backend, task, start, current, outcome, elapsedSeen,
                   env, invokeArgs, prepared, createCall, streams, clockSeen, norm, awaited>>

\* time.sleep(self.poll_interval) blocks for the interval.
Sleep(i) ==
    /\ pc[i] = "sleep"
    /\ now' = now + inst.poll_interval.val
    /\ log' = [log EXCEPT ![i] = Append(@, "sleep")]
    /\ pc' = [pc EXCEPT ![i] = "retrieve"]
    /\ UNCHANGED <<frontend, argv, ctorArgs, inst, cli, backend, task, start, current, outcome, elapsedSeen,
                   env, invokeArgs, prepared, createCall, streams, clockSeen, norm, awaited>>

\* json.dumps(result, indent=2) of the HITL result: the parts of the document.
JsonDumps(result) ==
    <<"{\n  \"status\": \"", result.status, "\",\n  \"output\": \"", result.output, "\"\n}">>

\* Variant: a TimeoutError is reported on stderr but the exit code is 0.
CliFinish_TimeoutExitsZero ==
    /\ frontend = "cli"
    /\ cli.phase = "invoked"
    /\ pc[1] = "done"
    /\ IF outcome[1].kind = "return"
       THEN /\ streams' = [streams EXCEPT !.stdout = Append(@, JsonDumps(outcome[1].value))]
            /\ cli' = [phase |-> "exited", exit |-> Num(0)]
       ELSE IF outcome[1].exc = "TimeoutError"
       THEN /\ streams' = [streams EXCEPT !.stderr = Append(@, outcome[1].message)]
            /\ cli' = [phase |-> "exited", exit |-> Num(0)]
       ELSE /\ streams' = streams
            /\ cli' = [cli EXCEPT !.phase = "crashed"]
    /\ UNCHANGED <<frontend, argv, ctorArgs, inst, now, backend,
                   pc, task, start, current, outcome, log, elapsedSeen,
                   env, invokeArgs, prepared, createCall, clockSeen, norm, awaited>>

\* main(), lines 49-56: the result is printed and the exit code is 0; a
\* TimeoutError gives exit code 1; any other exception is not caught.
CliFinish ==
    /\ frontend = "cli"
    /\ cli.phase = "invoked"
    /\ pc[1] = "done"
    /\ IF outcome[1].kind = "return"
       THEN /\ streams' = [streams EXCEPT !.stdout = Append(@, JsonDumps(outcome[1].value))]
            /\ cli' = [phase |-> "exited", exit |-> Num(0)]
       ELSE IF outcome[1].exc = "TimeoutError"
       THEN /\ streams' = [streams EXCEPT !.stderr = Append(@, outcome[1].message)]
            /\ cli' = [phase |-> "exited", exit |-> Num(1)]
       ELSE /\ streams' = streams
            /\ cli' = [cli EXCEPT !.phase = "crashed"]
    /\ UNCHANGED <<frontend, argv, ctorArgs, inst, now, backend,
                   pc, task, start, current, outcome, log, elapsedSeen,
                   env, invokeArgs, prepared, createCall, clockSeen, norm, awaited>>

----------------------------------------------------------------------------
(* Specification: one instance, one invocation at a time *)

Single == {1}

Step(i) ==
    \/ Invoke(i)
    \/ Create(i)
    \/ CreateRaises(i)
    \/ ReadStart(i)
    \/ Retrieve(i)
    \/ RetrieveRaises(i)
    \/ CheckDeadline(i)
    \/ Sleep(i)

Next ==
    \/ ConstructHitl
    \/ ConstructDirect
    \/ CliParse
    \/ CliConstruct
    \/ CliFinish
    \/ \E i \in Single : Step(i)

Spec == Init /\ [][Next]_vars

----------------------------------------------------------------------------
(* The command line on its own, with every kind of text for --timeout *)

\* The texts of CliTimeoutChoices and the texts that float() reads as a NaN.
CliTimeoutTexts ==
    CliTimeoutChoices \cup { Str(<<"n","a","n">>), Str(<<"N","a","N">>) }

InitCommandLine ==
    /\ InitCommon
    /\ frontend = "cli"
    /\ cli = [phase |-> "start", exit |-> None]
    /\ ctorArgs = NoArgs
    /\ \E c \in CliCreditChoices, t \in CliTimeoutTexts :
           argv = [project_id |-> Str(<<"1">>), env_project_id |-> None,
                   max_credit |-> c[1], env_max_credits |-> c[2],
                   timeout |-> t, poll_interval |-> None]
    /\ env = [statuses |-> {pending, completed, Failed}, createStatuses |-> {pending},
              results |-> {None, TaskResult(Text("All good"), <<>>)}, advances |-> Advances]
    /\ invokeArgs = [i \in Invocations |-> NoCall]
    /\ norm = NotNormalizing

NextCommandLine ==
    \/ CliParse
    \/ CliConstruct
    \/ CliFinish
    \/ \E i \in Single : Step(i)

SpecCommandLine == InitCommandLine /\ [][NextCommandLine]_vars

----------------------------------------------------------------------------
(* The two tools against richer task results *)

\* Results with a message and deliverables together, and with two deliverables.
RichResults ==
    Results \cup
    { TaskResult(Text("All good"), <<Deliverable("out.txt", "https://x/out.txt")>>),
      TaskResult(Text(""), <<Deliverable("out.txt", "https://x/out.txt")>>),
      TaskResult(None, <<Deliverable("out.txt", "https://x/out.txt"),
                         Deliverable("log.md", "https://x/log.md")>>) }

\* One configuration of each tool (timeout 5, 20 credits), any status and any
\* rich result at every poll.
InitFormat ==
    /\ InitCommon
    /\ frontend \in {"hitl", "direct"}
    /\ argv = NoArgv
    /\ cli = [phase |-> "none", exit |-> None]
    /\ ctorArgs = [timeout |-> Num(5), max_credits |-> Num(20),
                   poll_interval |-> Num(DefaultPollInterval), tag_id |-> None]
    /\ env = [statuses |-> StatusWords, createStatuses |-> {pending},
              results |-> RichResults, advances |-> {0, 3}]
    /\ invokeArgs = [i \in Invocations |-> NoCall]
    /\ norm = NotNormalizing

NextTools ==
    \/ ConstructHitl
    \/ ConstructDirect
    \/ \E i \in Single : Step(i)

SpecFormat == InitFormat /\ [][NextTools]_vars

----------------------------------------------------------------------------
(* The attachment normalizer on its own *)

\* The keys a dict may carry: both spellings of the two names, the two
\* payload keys, and a key outside the attachment schema; one value per key.
AttachmentKeys ==
    {"file_name", "mime_type", "fileName", "mimeType", "content", "base64", "note"}
KeyValue(k) ==
    CASE k = "file_name" -> "a.py"
      [] k = "fileName" -> "b.py"
      [] k = "mime_type" -> "text/x-python"
      [] k = "mimeType" -> "text/plain"
      [] k = "content" -> "x"
      [] k = "base64" -> "eA=="
      [] k = "note" -> "n"

DictItems == { Dict([k \in K |-> KeyValue(k)]) : K \in SUBSET AttachmentKeys }
ObjectItems ==
    { AttachmentInput("a.py", "text/x-python", c, b) :
        c \in {None, Text("x")}, b \in {None, Text("eA==")} }
OtherItems == { Other(Text("a.py")), Other(Num(7)) }

\* The items that are also tried two at a time.
PairItems ==
    { AttachmentInput("a.py", "text/x-python", Text("x"), None),
      Dict([k \in {"file_name", "mime_type", "content"} |-> KeyValue(k)]),
      Dict([k \in {"fileName", "mimeType", "note"} |-> KeyValue(k)]),
      Dict([k \in {"note"} |-> KeyValue(k)]),
      Other(Text("a.py")) }

NormalizerInputs ==
    {None, List(<<>>)}
      \cup { List(<<x>>) : x \in DictItems \cup ObjectItems \cup OtherItems }
      \cup { List(<<x, y>>) : x \in PairItems, y \in PairItems }

\* The same attachments with every snake_case key spelt in camelCase, values kept.
CamelCased(attachments) ==
    LET camel(k) == CASE k = "file_name" -> "fileName"
                      [] k = "mime_type" -> "mimeType"
                      [] OTHER -> k
        renamed(m) ==
            [k \in { camel(j) : j \in DOMAIN m } |->
                IF k = "fileName" /\ "file_name" \in DOMAIN m THEN m["file_name"]
                ELSE IF k = "mimeType" /\ "mime_type" \in DOMAIN m THEN m["mime_type"]
                ELSE m[k]]
    IN  IF attachments.kind # "list" THEN attachments
        ELSE List([k \in 1..Len(attachments.items) |->
                     IF attachments.items[k].kind = "dict"
                     THEN Dict(renamed(attachments.items[k].map))
                     ELSE attachments.items[k]])

InitNormalize ==
    /\ InitCommon
    /\ frontend = "hitl"
    /\ argv = NoArgv
    /\ cli = [phase |-> "none", exit |-> None]
    /\ ctorArgs = NoArgs
    /\ env = FullEnv
    /\ invokeArgs = [i \in Invocations |-> NoCall]
    /\ \E a \in NormalizerInputs :
           norm = [stage |-> "run", input |-> a, twin |-> CamelCased(a),
                   output |-> Unset, twinOutput |-> Unset, again |-> Unset]

\* _normalize_attachments(input)
NormalizeInput ==
    /\ norm.stage = "run"
    /\ norm.output = Unset
    /\ norm' = [norm EXCEPT !.output = _normalize_attachments(norm.input)]
    /\ UNCHANGED <<frontend, argv, ctorArgs, inst, cli, now, backend,
                   pc, task, start, current, outcome, log, elapsedSeen,
                   env, invokeArgs, prepared, createCall, streams, clockSeen, awaited>>

\* _normalize_attachments(twin)
NormalizeTwin ==
    /\ norm.stage = "run"
    /\ norm.twinOutput = Unset
    /\ norm' = [norm EXCEPT !.twinOutput = _normalize_attachments(norm.twin)]
    /\ UNCHANGED <<frontend, argv, ctorArgs, inst, cli, now, backend,
                   pc, task, start, current, outcome, log, elapsedSeen,
                   env, invokeArgs, prepared, createCall, streams, clockSeen, awaited>>

\* _normalize_attachments applied to what it returned for the input.
NormalizeOutput ==
    /\ norm.stage = "run"
    /\ norm.output # Unset
    /\ norm.output.ok
    /\ norm.again = Unset
    /\ norm' = [norm EXCEPT !.again = _normalize_attachments(norm.output.val)]
    /\ UNCHANGED <<frontend, argv, ctorArgs, inst, cli, now, backend,
                   pc, task, start, current, outcome, log, elapsedSeen,
                   env, invokeArgs, prepared, createCall, streams, clockSeen, awaited>>

NextNormalize == NormalizeInput \/ NormalizeTwin \/ NormalizeOutput

SpecNormalize == InitNormalize /\ [][NextNormalize]_vars

----------------------------------------------------------------------------
(* HumanInTheLoop.invoke with attachments and tag ids *)

\* Nothing, the empty list, and lists of one, two and three items with an
\* item of another type at every position.
InvokeAttachments ==
    {None, List(<<>>)}
      \cup { List(<<x>>) : x \in PairItems }
      \cup { List(<<x, y>>) : x \in PairItems, y \in PairItems }
      \cup { List(<<x, y, z>>) :
                x \in {AttachmentInput("a.py", "text/x-python", Text("x"), None), Other(Num(7))},
                y \in {Dict([k \in {"file_name", "mime_type"} |-> KeyValue(k)]), Other(Num(7))},
                z \in {AttachmentInput("a.py", "text/x-python", None, Text("eA==")), Other(Num(7))} }

\* One HumanInTheLoop (timeout 5, 20 credits) with or without a tag id of its
\* own, invoked with any of the attachment lists and with or without a tag id.
InitAttach ==
    /\ InitCommon
    /\ frontend = "hitl"
    /\ argv = NoArgv
    /\ cli = [phase |-> "none", exit |-> None]
    /\ \E g \in {None, Num(3)} :
           ctorArgs = [timeout |-> Num(5), max_credits |-> Num(20),
                       poll_interval |-> Num(DefaultPollInterval), tag_id |-> g]
    /\ env = [statuses |-> {pending, completed, Failed}, createStatuses |-> {pending},
              results |-> {None, TaskResult(Text("All good"), <<>>)}, advances |-> {0, 3}]
    /\ \E a \in InvokeAttachments, g \in {None, Num(0), Num(7)} :
           invokeArgs = [i \in Invocations |->
                           IF i = 1 THEN [entry |-> "invoke", attachments |-> a, tag_id |-> g]
                           ELSE NoCall]
    /\ norm = NotNormalizing

NextHitl ==
    \/ ConstructHitl
    \/ \E i \in Single : Step(i)

SpecAttach == InitAttach /\ [][NextHitl]_vars

----------------------------------------------------------------------------
(* invoke and ainvoke side by side *)

\* One HumanInTheLoop (timeout 5, 20 credits, with or without a tag id of its
\* own) entered through invoke or through ainvoke, with nothing, a good or a
\* bad attachment list, and with or without a tag id.
InitAsync ==
    /\ InitCommon
    /\ frontend = "hitl"
    /\ argv = NoArgv
    /\ cli = [phase |-> "none", exit |-> None]
    /\ \E g \in {None, Num(3)} :
           ctorArgs = [timeout |-> Num(5), max_credits |-> Num(20),
                       poll_interval |-> Num(DefaultPollInterval), tag_id |-> g]
    /\ env = [statuses |-> {pending, completed, Failed}, createStatuses |-> {pending},
              results |-> {None, TaskResult(Text("All good"), <<>>)}, advances |-> {0, 3}]
    /\ \E e \in {"invoke", "ainvoke"}, g \in {None, Num(0), Num(7)},
          a \in {None, List(<<>>)} \cup { List(<<x>>) : x \in PairItems } :
           invokeArgs = [i \in Invocations |->
                           IF i = 1 THEN [entry |-> e, attachments |-> a, tag_id |-> g]
                           ELSE NoCall]
    /\ norm = NotNormalizing

NextAsync ==
    \/ ConstructHitl
    \/ \E i \in Single : Step(i)
    \/ \E i \in Single : AInvoke(i)
    \/ \E i \in Single : WorkerStart(i)
    \/ \E i \in Single : AwaitFuture(i)

SpecAsync == InitAsync /\ [][NextAsync]_vars

----------------------------------------------------------------------------
(* Termination of the poll loop *)

\* Short deadlines, which the poll interval of 2 seconds exceeds within
\* MaxPolls polls, and the infinite deadline of HumanInTheLoop.
InitLive ==
    /\ InitCommon
    /\ argv = NoArgv
    /\ cli = [phase |-> "none", exit |-> None]
    /\ \/ /\ frontend = "hitl"
          /\ \E t \in {Num(1), Num(3), Num(INFINITE_TIMEOUT_SENTINEL)} :
                 ctorArgs = [timeout |-> t, max_credits |-> Num(20),
                             poll_interval |-> Num(DefaultPollInterval), tag_id |-> None]
       \/ /\ frontend = "direct"
          /\ \E t \in {Num(1), Num(3)} :
                 ctorArgs = [timeout |-> t, max_credits |-> Num(20),
                             poll_interval |-> Num(DefaultPollInterval), tag_id |-> None]
    /\ env = [statuses |-> {pending, completed, Failed}, createStatuses |-> {pending},
              results |-> {None, TaskResult(Text("All good"), <<>>)}, advances |-> {0, 3}]
    /\ invokeArgs = [i \in Invocations |-> NoCall]
    /\ norm = NotNormalizing

\* The thread that runs _run keeps running: every call it makes returns or
\* raises, and time.sleep returns.
SpecLive == InitLive /\ [][NextTools]_vars /\ WF_vars(NextTools)

----------------------------------------------------------------------------
(* Two invocations of one HumanInTheLoop at the same time *)

\* ainvoke runs _run on an executor thread: two invocations of one instance
\* take their steps in any order.
Pair == {1, 2}

InitConcurrent ==
    /\ InitCommon
    /\ frontend = "hitl"
    /\ argv = NoArgv
    /\ cli = [phase |-> "none", exit |-> None]
    /\ ctorArgs = [timeout |-> Num(5), max_credits |-> Num(20),
                   poll_interval |-> Num(DefaultPollInterval), tag_id |-> None]
    /\ env = [statuses |-> {pending, completed, Failed}, createStatuses |-> {pending},
              results |-> {None}, advances |-> {0, 3}]
    /\ invokeArgs = [i \in Invocations |-> NoCall]
    /\ norm = NotNormalizing

NextConcurrent ==
    \/ ConstructHitl
    \/ \E i \in Pair : Step(i)

SpecConcurrent == InitConcurrent /\ [][NextConcurrent]_vars

----------------------------------------------------------------------------
(* Two invocations of one instance, each with its own tag id *)

\* One HumanInTheLoop (timeout 5, 20 credits) with or without a tag id of its
\* own, invoked twice, each time with or without a per-call tag id.
InitTags ==
    /\ InitCommon
    /\ frontend = "hitl"
    /\ argv = NoArgv
    /\ cli = [phase |-> "none", exit |-> None]
    /\ \E g \in {None, Num(3)} :
           ctorArgs = [timeout |-> Num(5), max_credits |-> Num(20),
                       poll_interval |-> Num(DefaultPollInterval), tag_id |-> g]
    /\ env = [statuses |-> {pending, completed}, createStatuses |-> {pending},
              results |-> {None}, advances |-> {3}]
    /\ \E g \in {None, Num(0), Num(7)}, h \in {None, Num(0), Num(7)} :
           invokeArgs = [i \in Invocations |->
                           [entry |-> "invoke", attachments |-> None,
                            tag_id |-> IF i = 1 THEN g ELSE h]]
    /\ norm = NotNormalizing

SpecTags == InitTags /\ [][NextConcurrent]_vars

----------------------------------------------------------------------------
(* Properties *)

\* Case-insensitive equality with a lower-case word, letter by letter.
EqualIgnoringCase(s, word) ==
    /\ Len(s) = Len(word)
    /\ \A k \in 1..Len(s) :
           \/ s[k] = word[k]
           \/ \E j \in 1..26 : s[k] = UpperAlphabet[j] /\ word[k] = LowerAlphabet[j]

\* A status of the terminal set {completed, failed, canceled, cancelled, expired}.
TerminalStatus(s) ==
    \E word \in {completed, failed, canceled, cancelled, expired} : EqualIgnoringCase(s, word)

IsTimeoutError(o) == o.kind = "raise" /\ o.exc = "TimeoutError"
IsBackendError(o) == o.kind = "raise" /\ o.exc = "BackendError"
\* The outcomes that come from a result formatter: a returned value, or the
\* RuntimeError of CodeVFReviewTool._format_result.
FromFormatter(o) == o.kind = "return" \/ (o.kind = "raise" /\ o.exc = "RuntimeError")

IsHitl == frontend \in {"hitl", "cli"}
Last(seq) == seq[Len(seq)]
NoBackendCall ==
    /\ backend = [created |-> 0, retrieved |-> 0]
    /\ \A i \in Invocations : pc[i] = "idle" /\ log[i] = <<>>

\* C1: in both front-ends the poll loop hands a task to the result formatter
\* only if the status of the most recent retrieve is, ignoring case, one of
\* completed, failed, canceled, cancelled, expired; a non-terminal status
\* never ends the loop with a result.
C1_OnlyTerminalFormatted ==
    \A i \in Invocations :
        FromFormatter(outcome[i]) =>
            /\ Retrieves(i) >= 1
            /\ Last(log[i]) = "retrieve"
            /\ TerminalStatus(current[i].status)

C1_Witness ==
    /\ frontend = "direct"
    /\ outcome[1].kind = "return"
    /\ current[1].status = COMPLETED
    /\ Retrieves(1) = 2

\* C2: HumanInTheLoop with a finite deadline D and non-terminal polls raises
\* TimeoutError at the first poll whose elapsed time is strictly greater than
\* D and at no earlier poll; a poll with elapsed <= D (equality included) does
\* not time out and is followed by a sleep and another retrieve.
C2_TimeoutAtFirstExceedingPoll ==
    \A i \in Invocations :
        (IsHitl /\ inst.state = "ready" /\ inst.timeout.kind = "num") =>
            LET D == inst.timeout.val
                seen == elapsedSeen[i]
                n == Len(seen)
            IN  /\ \A k \in 1..(n - 1) : seen[k] <= D
                /\ IsTimeoutError(outcome[i]) <=> (n > 0 /\ seen[n] > D)
                /\ IsTimeoutError(outcome[i]) =>
                       /\ pc[i] = "done"
                       /\ Retrieves(i) = n
                       /\ ~TerminalStatus(current[i].status)
                /\ (n > 0 /\ seen[n] <= D) =>
                       \/ pc[i] = "sleep" /\ Sleeps(i) = n - 1 /\ Retrieves(i) = n
                       \/ pc[i] = "retrieve" /\ Sleeps(i) = n /\ Retrieves(i) = n
                       \/ Sleeps(i) = n /\ Retrieves(i) = n + 1

C2_Witness ==
    /\ frontend = "hitl"
    /\ inst.state = "ready"
    /\ inst.timeout = Num(5)
    /\ IsTimeoutError(outcome[1])
    /\ Len(elapsedSeen[1]) = 3
    /\ elapsedSeen[1][2] = 5
    /\ elapsedSeen[1][3] > 5

\* C3: a retrieve that returns a terminal status ends the invocation with the
\* formatter's outcome, with no further retrieve, clock reading or sleep, also
\* when the elapsed time already exceeds the deadline: a task observed
\* terminal never gives a TimeoutError.
C3_TerminalStopsUnconditionally ==
    \A i \in Invocations :
        (Retrieves(i) >= 1 /\ current[i] # NoTask /\ TerminalStatus(current[i].status)) =>
            /\ pc[i] = "done"
            /\ FromFormatter(outcome[i])
            /\ outcome[i] = Formatted(current[i])
            /\ Last(log[i]) = "retrieve"

C3_Witness ==
    /\ inst.state = "ready"
    /\ inst.timeout.kind = "num"
    /\ now - start[1] > inst.timeout.val
    /\ TerminalStatus(current[1].status)
    /\ outcome[1].kind = "return"

\* C4: HumanInTheLoop constructed with timeout = -1 has the resolved timeout
\* None and never raises TimeoutError: whatever the number of non-terminal
\* polls and the elapsed time, only a retrieved terminal status (or an error of
\* the backend call) ends the loop.
C4_MinusOneNeverTimesOut ==
    (IsHitl /\ ctorArgs.timeout = Num(-1) /\ inst.state # "new") =>
        /\ inst.state = "ready"
        /\ inst.timeout = None
        /\ \A i \in Invocations :
               /\ ~IsTimeoutError(outcome[i])
               /\ pc[i] = "done" =>
                      \/ IsBackendError(outcome[i])
                      \/ outcome[i].kind = "return" /\ TerminalStatus(current[i].status)

C4_Witness ==
    /\ frontend = "hitl"
    /\ ctorArgs.timeout = Num(-1)
    /\ pc[1] = "sleep"
    /\ Len(elapsedSeen[1]) >= 2
    /\ Last(elapsedSeen[1]) >= 600

\* C5: an explicit timeout of 0, or negative other than -1, is refused before
\* any backend call: the constructor of HumanInTheLoop raises ValueError, and
\* the command line exits with code 2 without constructing HumanInTheLoop.
C5_BadTimeoutRejectedEarly ==
    /\ (frontend = "hitl" /\ ctorArgs.timeout.kind = "num"
            /\ ctorArgs.timeout.val <= 0 /\ ctorArgs.timeout.val # -1) =>
           /\ inst.state \in {"new", "error"}
           /\ inst.state = "error" => inst.exc = "ValueError"
           /\ NoBackendCall
    /\ (frontend = "cli" /\ argv.timeout \in {Str(<<"0">>), Str(<<"-","5">>)}) =>
           /\ inst = Unbuilt
           /\ cli.phase \in {"start", "exited"}
           /\ cli.phase = "exited" => cli.exit = Num(2)
           /\ NoBackendCall

C5_Witness ==
    /\ frontend = "cli"
    /\ argv.timeout = Str(<<"-","5">>)
    /\ argv.project_id = Str(<<"1">>)
    /\ argv.max_credit = Str(<<"2","0">>)
    /\ argv.poll_interval = None
    /\ cli = [phase |-> "exited", exit |-> Num(2)]

\* C6: the timeout resolution policy holds for CodeVFReviewTool too:
\* timeout = -1 disables the deadline, timeout = 0 or another negative value
\* is refused, and an unset timeout is 2 * max_credits + 300.
C6_DirectTimeoutPolicy ==
    (frontend = "direct" /\ inst.state # "new") =>
        /\ ctorArgs.timeout = Num(-1) =>
               /\ inst.state = "ready"
               /\ inst.timeout = None
               /\ \A i \in Invocations : ~IsTimeoutError(outcome[i])
        /\ (ctorArgs.timeout.kind = "num" /\ ctorArgs.timeout.val <= 0
                /\ ctorArgs.timeout.val # -1) => inst.state = "error"
        /\ ctorArgs.timeout = Unset =>
               /\ inst.state = "ready"
               /\ inst.timeout = Num(2 * ctorArgs.max_credits.val + 300)

\* C7: with no timeout supplied, for every credit budget c >= 0 the resolved
\* timeout of HumanInTheLoop is exactly 2 * c + 300 seconds.
C7_DefaultTimeoutFormula ==
    (IsHitl /\ inst.state # "new" /\ ctorArgs.timeout = None
        /\ ctorArgs.max_credits.kind = "num" /\ ctorArgs.max_credits.val >= 0) =>
        /\ inst.state = "ready"
        /\ inst.timeout = Num(2 * ctorArgs.max_credits.val + 300)

C7_Witness ==
    /\ frontend = "hitl"
    /\ ctorArgs.timeout = None
    /\ ctorArgs.max_credits = Num(20)
    /\ inst.state = "ready"
    /\ inst.timeout = Num(340)

\* C8: with no timeout supplied, construction fails with ValueError, before
\* any backend call, when max_credits is None, a boolean or not numeric; with
\* an explicit timeout the result of construction is decided by the timeout
\* alone, whatever max_credits is.
C8_DefaultNeedsCredits ==
    (frontend = "hitl" /\ inst.state # "new") =>
        /\ (ctorArgs.timeout = None
                /\ ctorArgs.max_credits \in {None, Bool(TRUE), Str(<<"a","b","c">>)}) =>
               /\ inst = [state |-> "error", exc |-> "ValueError"]
               /\ NoBackendCall
        /\ ctorArgs.timeout = Num(5) => (inst.state = "ready" /\ inst.timeout = Num(5))
        /\ ctorArgs.timeout = Num(-1) => (inst.state = "ready" /\ inst.timeout = None)
        /\ ctorArgs.timeout \in {Num(0), Num(-5), Bool(TRUE), Str(<<"a","b","c">>)} =>
               inst.state = "error"

C8_Witness ==
    /\ frontend = "hitl"
    /\ ctorArgs.timeout = None
    /\ ctorArgs.max_credits = Bool(TRUE)
    /\ inst = [state |-> "error", exc |-> "ValueError"]

\* The ways a number of seconds may be written in a message.
Renderings(n) == {ToString(n), ToString(n) \o "s", ToString(n) \o ".0", ToString(n) \o ".00s"}

\* C9: in every front-end the TimeoutError of the poll loop carries the id of
\* the task returned by create, the elapsed time at the failing poll and the
\* configured deadline.
C9_TimeoutErrorCarriesAll ==
    \A i \in Invocations :
        IsTimeoutError(outcome[i]) =>
            LET parts == {outcome[i].message[k] : k \in 1..Len(outcome[i].message)}
            IN  /\ task[i].id \in parts
                /\ Renderings(Last(elapsedSeen[i])) \cap parts # {}
                /\ Renderings(inst.timeout.val) \cap parts # {}

\* C10: HumanInTheLoop.invoke never raises for a terminal status: completed,
\* in any letter case, gives the tag "approved"; failed, canceled, cancelled
\* and expired give the tag "cancelled"; either way a value with an output
\* string is returned.
C10_TerminalNeverRaises ==
    \A i \in Invocations :
        (IsHitl /\ Retrieves(i) >= 1 /\ TerminalStatus(current[i].status)) =>
            /\ outcome[i].kind = "return"
            /\ outcome[i].value.status =
                   IF EqualIgnoringCase(current[i].status, completed) THEN approved
                   ELSE cancelled
            /\ outcome[i].value.output \in STRING
            /\ outcome[i].value.output # ""

C10_Witness ==
    /\ frontend = "hitl"
    /\ current[1].status = Failed
    /\ current[1].result = None
    /\ outcome[1] = Returned([status |-> cancelled,
                              output |-> "CodeVF task failed without a text response."])

\* C11: CodeVFReviewTool._run returns a string only when the terminal status
\* it retrieved is completed; for failed, canceled, cancelled and expired it
\* raises RuntimeError, whatever message or deliverables the task carries.
C11_DirectReturnsOnlyCompleted ==
    \A i \in Invocations :
        frontend = "direct" =>
            /\ (pc[i] = "done" /\ TerminalStatus(current[i].status)) =>
                   IF EqualIgnoringCase(current[i].status, completed)
                   THEN outcome[i].kind = "return" /\ outcome[i].value \in STRING
                   ELSE outcome[i].kind = "raise" /\ outcome[i].exc = "RuntimeError"
            /\ outcome[i].kind = "return" =>
                   EqualIgnoringCase(current[i].status, completed)

C11_Witness ==
    /\ frontend = "direct"
    /\ pc[1] = "done"
    /\ current[1].status = expired
    /\ HasMessage(current[1]) /\ HasDeliverables(current[1])
    /\ outcome[1].kind = "raise" /\ outcome[1].exc = "RuntimeError"

\* The banner followed by one "- file_name: url" line for each of the first n
\* deliverables, in their order.
RECURSIVE ListingUpTo(_, _)
ListingUpTo(deliverables, n) ==
    IF n = 0 THEN "CodeVF task completed. Deliverables:"
    ELSE ListingUpTo(deliverables, n - 1)
         \o "\n- " \o deliverables[n].file_name \o ": " \o deliverables[n].url

\* C12: the output string of a HITL result is chosen by strict priority: the
\* non-empty result message; else the banner and one line per deliverable, in
\* order, when there are deliverables; else the failed text for status failed
\* or the cancelled text for canceled, cancelled, expired; else the generic
\* text. A lower rule is used only when no higher rule applies.
C12_OutputPriority ==
    \A i \in Invocations :
        (IsHitl /\ outcome[i].kind = "return") =>
            LET t == current[i]
                r == t.result
                output == outcome[i].value.output
                message == r.kind # "none" /\ r.message.kind # "none" /\ r.message.text # ""
                listed == r.kind # "none" /\ r.deliverables # <<>>
            IN  IF message THEN output = r.message.text
                ELSE IF listed THEN output = ListingUpTo(r.deliverables, Len(r.deliverables))
                ELSE IF EqualIgnoringCase(t.status, failed)
                     THEN output = "CodeVF task failed without a text response."
                ELSE IF \E w \in {canceled, cancelled, expired} : EqualIgnoringCase(t.status, w)
                     THEN output = "CodeVF task was cancelled."
                ELSE output = "CodeVF task completed without a text response."

C12_Witness ==
    /\ frontend = "hitl"
    /\ pc[1] = "done"
    /\ current[1].result.kind # "none"
    /\ current[1].result.message = None
    /\ Len(current[1].result.deliverables) = 2
    /\ current[1].status = failed
    /\ outcome[1].kind = "return"
    /\ outcome[1].value.output =
           "CodeVF task completed. Deliverables:\n- out.txt: https://x/out.txt\n- log.md: https://x/log.md"

\* A task whose result carries no message, or an empty one.
NoMessage(t) ==
    t.result.kind = "none" \/ t.result.message.kind = "none" \/ t.result.message.text = ""
NoDeliverables(t) ==
    t.result.kind = "none" \/ t.result.deliverables = <<>>
FailedFallback == [status |-> cancelled, output |-> "CodeVF task failed without a text response."]

\* C13, as stated: every terminal task with status failed and no message
\* yields, in HITL, the failed fallback text with tag cancelled, and in the
\* direct tool a raised error, whatever its deliverables.
C13_FailedWhateverDeliverables ==
    \A i \in Invocations :
        (pc[i] = "done" /\ EqualIgnoringCase(current[i].status, failed)
                       /\ NoMessage(current[i])) =>
            /\ IsHitl => outcome[i] = Returned(FailedFallback)
            /\ frontend = "direct" => outcome[i].kind = "raise"

\* C13, amended: a terminal task with status failed, no message and no
\* deliverables yields, in HITL, the failed fallback text with tag cancelled;
\* with deliverables the HITL output is the deliverable listing, still with
\* tag cancelled. In the direct tool every failed task raises RuntimeError,
\* whatever its deliverables.
C13_FailedWithoutContent ==
    \A i \in Invocations :
        (pc[i] = "done" /\ EqualIgnoringCase(current[i].status, failed)
                       /\ NoMessage(current[i])) =>
            /\ (IsHitl /\ NoDeliverables(current[i])) => outcome[i] = Returned(FailedFallback)
            /\ (IsHitl /\ ~NoDeliverables(current[i])) =>
                   outcome[i] = Returned([status |-> cancelled,
                                          output |-> ListingUpTo(current[i].result.deliverables,
                                                                 Len(current[i].result.deliverables))])
            /\ frontend = "direct" =>
                   outcome[i].kind = "raise" /\ outcome[i].exc = "RuntimeError"

C13_Witness ==
    /\ frontend = "hitl"
    /\ pc[1] = "done"
    /\ current[1].status = Failed
    /\ current[1].result = TaskResult(Text(""), <<>>)
    /\ outcome[1] = Returned(FailedFallback)

\* C14: neither front-end retries a backend call. When tasks.create raises,
\* that error leaves the invocation and no retrieve or sleep happens; when
\* tasks.retrieve raises, that error leaves the invocation and no retrieve,
\* sleep or create follows. tasks.create is called at most once per
\* invocation, as its first call.
C14_NoRetries ==
    \A i \in Invocations :
        /\ \A k \in 1..Len(log[i]) : log[i][k] = "create" => k = 1
        /\ (createCall[i] # Unset /\ createCall[i].id = None) =>
               /\ pc[i] = "done" /\ IsBackendError(outcome[i])
               /\ log[i] = <<"create">>
        /\ (IsBackendError(outcome[i]) /\ createCall[i].id # None) =>
               /\ pc[i] = "done"
               /\ Last(log[i]) = "retrieve"
        /\ IsBackendError(outcome[i]) =>
               backend.created + backend.retrieved = Retrieves(i) + 1

C14_Witness ==
    /\ IsBackendError(outcome[1])
    /\ pc[1] = "done"
    /\ Sleeps(1) = 1
    /\ log[1] = <<"create", "clock", "retrieve", "clock", "sleep", "retrieve">>

\* The keys of the wire shape, and the keys that name a file or a mime type.
WireKeys == {"fileName", "mimeType", "content", "base64"}
NameKeys == {"file_name", "mime_type", "fileName", "mimeType"}
IsMapping(item) == item.kind = "dict"
\* A list of mappings that spell the two names in snake_case only.
SnakeMappings(attachments) ==
    /\ attachments.kind = "list"
    /\ \A k \in 1..Len(attachments.items) :
           /\ IsMapping(attachments.items[k])
           /\ DOMAIN attachments.items[k].map \cap {"fileName", "mimeType"} = {}

\* C17: attachment normalization is naming-convention-agnostic and
\* idempotent: a list of mappings in snake_case and the same list spelt in
\* camelCase, with the same values, normalize to the identical result, and
\* normalizing an already-normalized list returns it unchanged.
C17_NamingAgnosticIdempotent ==
    norm.stage = "run" =>
        /\ (SnakeMappings(norm.input) /\ norm.output # Unset /\ norm.twinOutput # Unset) =>
               norm.output = norm.twinOutput
        /\ norm.again # Unset => norm.again = norm.output

\* C18: for every attachment that is an AttachmentInput, or a mapping with a
\* file-name or mime-type key in either spelling, the output mapping has keys
\* only among fileName, mimeType, content, base64; a mapping with none of
\* those name keys is passed through unchanged.
C18_WireKeysOnly ==
    (norm.stage = "run" /\ norm.output # Unset /\ norm.output.ok
                       /\ norm.output.val.kind = "list") =>
        \A k \in 1..Len(norm.input.items) :
            LET item == norm.input.items[k]
                out == norm.output.val.items[k]
            IN  IF IsMapping(item) /\ DOMAIN item.map \cap NameKeys = {}
                THEN out = item
                ELSE DOMAIN out.map \subseteq WireKeys

\* An attachment list with a value that is neither an AttachmentInput nor a mapping.
HasForeignItem(attachments) ==
    /\ attachments.kind = "list"
    /\ \E k \in 1..Len(attachments.items) :
           attachments.items[k].kind \notin {"AttachmentInput", "dict"}

\* C19: HumanInTheLoop.invoke with an attachment list that holds, at any
\* position, a value that is neither an AttachmentInput nor a mapping raises
\* TypeError before tasks.create: the invocation makes no backend call.
C19_ForeignItemRaisesEarly ==
    \A i \in Invocations :
        (IsHitl /\ pc[i] # "idle" /\ HasForeignItem(invokeArgs[i].attachments)) =>
            /\ pc[i] = "done"
            /\ outcome[i].kind = "raise" /\ outcome[i].exc = "TypeError"
            /\ log[i] = <<>>
            /\ createCall[i] = Unset
            /\ backend = [created |-> 0, retrieved |-> 0]

C19_Witness ==
    /\ frontend = "hitl"
    /\ invokeArgs[1].attachments.kind = "list"
    /\ Len(invokeArgs[1].attachments.items) = 3
    /\ invokeArgs[1].attachments.items[1].kind = "AttachmentInput"
    /\ invokeArgs[1].attachments.items[2].kind = "dict"
    /\ invokeArgs[1].attachments.items[3].kind = "other"
    /\ pc[1] = "done"
    /\ outcome[1].kind = "raise" /\ outcome[1].exc = "TypeError"
    /\ backend.created = 0

\* A raw command-line or environment string that is an integer, and its value.
IntegerText(raw) == raw.kind = "str" /\ IsIntLiteral(raw.text)
\* The option when given, else the environment variable.
ArgOrEnv(arg, envvar) == IF arg.kind # "none" THEN arg ELSE envvar

\* Argument validation fails: project id or max credit missing or not an
\* integer, max credit <= 0, poll interval <= 0, or an invalid timeout.
InvalidArguments(a) ==
    \/ ~IntegerText(ArgOrEnv(a.project_id, a.env_project_id))
    \/ ~IntegerText(ArgOrEnv(a.max_credit, a.env_max_credits))
    \/ ParseInt(ArgOrEnv(a.max_credit, a.env_max_credits).text) <= 0
    \/ a.poll_interval.kind # "none" /\
           (~IntegerText(a.poll_interval) \/ ParseInt(a.poll_interval.text) <= 0)
    \/ a.timeout.kind # "none" /\
           (~IntegerText(a.timeout) \/
              (ParseInt(a.timeout.text) <= 0 /\ ParseInt(a.timeout.text) # -1))

\* C20: the exit code of the CLI is 0 when invoke returns a result, printed
\* as JSON on stdout; 1 when invoke raises TimeoutError, its message on
\* stderr and nothing on stdout; 2 when argument validation fails, and then
\* HumanInTheLoop is never constructed.
C20_ExitCodes ==
    frontend = "cli" =>
        LET finished == cli.phase \in {"exited", "crashed"}
        IN  /\ (finished /\ outcome[1].kind = "return") =>
                   /\ cli.exit = Num(0)
                   /\ Len(streams.stdout) = 1
                   /\ streams.stdout[1][2] = outcome[1].value.status
                   /\ streams.stdout[1][4] = outcome[1].value.output
                   /\ streams.stderr = <<>>
            /\ (finished /\ IsTimeoutError(outcome[1])) =>
                   /\ cli.exit = Num(1)
                   /\ streams.stderr = <<outcome[1].message>>
                   /\ streams.stdout = <<>>
            /\ (cli.phase # "start" /\ InvalidArguments(argv)) =>
                   /\ cli = [phase |-> "exited", exit |-> Num(2)]
                   /\ inst = Unbuilt
                   /\ streams.stdout = <<>>
            /\ cli.exit = Num(0) => outcome[1].kind = "return"
            /\ cli.exit = Num(1) => IsTimeoutError(outcome[1])
            /\ cli.exit = Num(2) => InvalidArguments(argv)

C20_Witness ==
    /\ frontend = "cli"
    /\ cli = [phase |-> "exited", exit |-> Num(1)]
    /\ streams.stdout = <<>>
    /\ Len(streams.stderr) = 1
    /\ IsTimeoutError(outcome[1])
    /\ argv.timeout = Str(<<"5">>)

\* What one invocation has observed by itself: the id its create returned,
\* its own clock readings, the last task it retrieved.
OwnId(i) == createCall[i].id
OwnElapsed(i) == [k \in 1..(Len(clockSeen[i]) - 1) |-> clockSeen[i][k + 1] - clockSeen[i][1]]

\* The outcome of the loop run alone on those observations.
AloneOutcome(i) ==
    IF createCall[i] = Unset THEN NoOutcome
    ELSE IF OwnId(i) = None THEN Raised("BackendError", <<>>)
    ELSE IF current[i] # NoTask /\ TerminalStatus(current[i].status)
         THEN Returned(_format_hitl_result(current[i]))
    ELSE IF OwnElapsed(i) # <<>> /\ Last(OwnElapsed(i)) > inst.timeout.val
         THEN Raised("TimeoutError",
                     HitlTimeoutMessage(OwnId(i).text, Last(OwnElapsed(i)), inst.timeout))
    ELSE NoOutcome

C15_State ==
    \A i \in Pair :
        /\ current[i] # NoTask => Text(current[i].id) = OwnId(i)
        /\ \A j \in Pair :
               (i # j /\ createCall[i] # Unset /\ createCall[j] # Unset /\ OwnId(i) # None) =>
                   OwnId(i) # OwnId(j)
        /\ elapsedSeen[i] = OwnElapsed(i)
        /\ ~IsBackendError(outcome[i]) => outcome[i] = AloneOutcome(i)
        /\ (IsBackendError(outcome[i]) /\ OwnId(i) # None) =>
               (AloneOutcome(i) = NoOutcome /\ Last(log[i]) = "retrieve")
        /\ pc[i] = "done" <=> outcome[i] # NoOutcome

\* C15: concurrent invocations of one HumanInTheLoop do not interfere. In
\* every interleaving each invocation retrieves only the task id its own
\* create returned, measures elapsed from its own start reading, and ends
\* with the outcome it would have had alone against the same answers; no
\* field of the instance is written during an invocation.
C15_NoInterference ==
    /\ []C15_State
    /\ [][inst.state = "ready" => inst' = inst]_vars

C15_Witness ==
    /\ frontend = "hitl"
    /\ pc[1] = "done" /\ pc[2] = "done"
    /\ OwnId(1) = Text("task_2") /\ OwnId(2) = Text("task_1")
    /\ clockSeen[1][1] < clockSeen[2][1]
    /\ IsTimeoutError(outcome[1])
    /\ outcome[2].kind = "return"
    /\ Len(log[2]) > Len(log[1])

FiniteDeadline == inst.state = "ready" /\ inst.timeout # None
InfiniteDeadline == inst.state = "ready" /\ inst.timeout = None

\* C16: with a finite deadline, and a clock that advances by the positive
\* poll interval between polls, every invocation terminates; when the backend
\* calls succeed it ends with a formatted result or a TimeoutError and in no
\* other way. With the infinite deadline it terminates exactly when a
\* terminal status is retrieved.
C16_Termination ==
    /\ \A i \in Single : (FiniteDeadline /\ pc[i] = "create") ~> (pc[i] = "done")
    /\ [](\A i \in Single :
             (pc[i] = "done" /\ ~IsBackendError(outcome[i])) =>
                 (FromFormatter(outcome[i]) \/ IsTimeoutError(outcome[i])))
    /\ [](\A i \in Single :
             (InfiniteDeadline /\ current[i] # NoTask /\ ~IsBackendError(outcome[i])) =>
                 (pc[i] = "done" <=> TerminalStatus(current[i].status)))
    /\ [](\A i \in Single :
             (InfiniteDeadline /\ pc[i] = "done" /\ ~IsBackendError(outcome[i])) =>
                 (current[i] # NoTask /\ outcome[i].kind = "return"))

C16_Witness ==
    /\ frontend = "hitl"
    /\ inst.state = "ready" /\ inst.timeout = Num(3)
    /\ pc[1] = "done"
    /\ IsTimeoutError(outcome[1])
    /\ Retrieves(1) = 3
    /\ elapsedSeen[1] = <<0, 2, 4>>

\* C22: every invocation produces at most one outcome. Once a result has
\* been returned or an error raised, the invocation makes no further create,
\* retrieve, clock reading or sleep, and its outcome never changes.
C22_AtMostOneOutcome ==
    /\ [](\A i \in Invocations : outcome[i] # NoOutcome <=> pc[i] = "done")
    /\ [][\A i \in Invocations :
             outcome[i] # NoOutcome =>
                 /\ outcome'[i] = outcome[i]
                 /\ log'[i] = log[i]
                 /\ clockSeen'[i] = clockSeen[i]
                 /\ current'[i] = current[i]
                 /\ pc'[i] = "done"
                 /\ backend' = backend /\ now' = now]_vars

C22_Witness ==
    /\ frontend = "cli"
    /\ cli = [phase |-> "exited", exit |-> Num(0)]
    /\ outcome[1].kind = "return"
    /\ Retrieves(1) = 2
    /\ Len(streams.stdout) = 1

\* The calls of an invocation in order: create, the start reading of the
\* clock, then rounds of retrieve, clock reading and sleep.
CallPattern(l) ==
    \A k \in 1..Len(l) :
        l[k] = IF k = 1 THEN "create"
               ELSE IF k = 2 THEN "clock"
               ELSE IF k % 3 = 0 THEN "retrieve"
               ELSE IF k % 3 = 1 THEN "clock"
               ELSE "sleep"

\* C23: an invocation calls create exactly once and before every retrieve,
\* reads the start time after create has returned, retrieves the task under
\* the id create returned, and sleeps the poll interval exactly once between
\* two consecutive retrieves, never before the first and never after the
\* last: a finished invocation with k retrieves has slept k - 1 times.
C23_CreateThenPollSleepAlternation ==
    /\ [](\A i \in Invocations :
             /\ CallPattern(log[i])
             /\ Retrieves(i) >= 1 =>
                    /\ task[i] # NoTask
                    /\ createCall[i] # Unset /\ createCall[i].id = Text(task[i].id)
                    /\ current[i] # NoTask => current[i].id = task[i].id
                    /\ start[i] = clockSeen[i][1]
                    /\ Sleeps(i) \in {Retrieves(i) - 1, Retrieves(i)}
             /\ Retrieves(i) = 0 => Sleeps(i) = 0
             /\ (pc[i] = "done" /\ Retrieves(i) >= 1) =>
                    /\ Sleeps(i) = Retrieves(i) - 1
                    /\ Last(log[i]) # "sleep")
    /\ [][\A i \in Invocations :
             log'[i] = Append(log[i], "sleep") => now' = now + inst.poll_interval.val]_vars

C23_Witness ==
    /\ frontend = "direct"
    /\ pc[1] = "done"
    /\ outcome[1].kind = "return"
    /\ Retrieves(1) = 3
    /\ Sleeps(1) = 2
    /\ log[1][1] = "create"

\* C29: the status reported by create never decides termination. An
\* invocation whose create succeeded has no outcome before its first
\* retrieve, and a formatted result is the formatting of the task most
\* recently retrieved, also when create reported a terminal status.
C29_CreateStatusNeverTerminates ==
    \A i \in Invocations :
        task[i] # NoTask =>
            /\ Retrieves(i) = 0 => (outcome[i] = NoOutcome /\ pc[i] \in {"start", "retrieve"})
            /\ pc[i] = "done" => Retrieves(i) >= 1
            /\ FromFormatter(outcome[i]) =>
                   /\ current[i] # NoTask
                   /\ outcome[i] = Formatted(current[i])

C29_Witness ==
    /\ frontend = "hitl"
    /\ task[1].status = completed
    /\ current[1].status = failed
    /\ Retrieves(1) = 1
    /\ outcome[1].kind = "return"
    /\ outcome[1].value.status = cancelled

\* C28: every result that HumanInTheLoop.invoke returns carries the status
\* approved or cancelled, approved exactly for a completed task; the branch
\* of the formatter that passes the raw status through is never taken by an
\* invocation.
C28_ResultTagApprovedOrCancelled ==
    \A i \in Invocations :
        (IsHitl /\ outcome[i].kind = "return") =>
            /\ outcome[i].value.status \in {approved, cancelled}
            /\ outcome[i].value.status = approved <=>
                   EqualIgnoringCase(current[i].status, completed)
            /\ outcome[i].value.status # Lower(current[i].status)
                   \/ Lower(current[i].status) = cancelled

C28_Witness ==
    /\ frontend = "hitl"
    /\ outcome[1].kind = "return"
    /\ current[1].status = expired
    /\ outcome[1].value.status = cancelled
    /\ Retrieves(1) = 2

\* C25: the CLI hands the timeout to the constructor unresolved: --timeout N
\* arrives as N, --timeout -1 arrives as -1 and is resolved there to no
\* deadline, an absent --timeout arrives as None so that the deadline is
\* 2 * max_credit + 300; max_credits is passed unchanged.
C25_CliPassesTimeoutUnresolved ==
    (frontend = "cli" /\ cli.phase # "start" /\ cli.exit # Num(2)) =>
        LET credit == ParseInt(ArgOrEnv(argv.max_credit, argv.env_max_credits).text)
        IN  /\ ctorArgs.timeout = IF argv.timeout = None THEN None
                                  ELSE Num(ParseInt(argv.timeout.text))
            /\ ctorArgs.max_credits = Num(credit)
            /\ inst.state # "new" =>
                   /\ inst.state = "ready"
                   /\ inst.max_credits = Num(credit)
                   /\ inst.timeout = IF argv.timeout = None THEN Num(2 * credit + 300)
                                     ELSE IF ParseInt(argv.timeout.text) = -1 THEN None
                                     ELSE Num(ParseInt(argv.timeout.text))

C25_Witness ==
    /\ frontend = "cli"
    /\ argv.timeout = Str(<<"-", "1">>)
    /\ ctorArgs.timeout = Num(-1)
    /\ cli.phase = "built"
    /\ inst.state = "ready"
    /\ inst.timeout = None

\* The file name and the content an attachment item carries, "" for none.
FileNameOf(item) ==
    IF item.kind = "AttachmentInput" THEN item.file_name
    ELSE IF "fileName" \in DOMAIN item.map THEN item.map["fileName"]
    ELSE IF "file_name" \in DOMAIN item.map THEN item.map["file_name"]
    ELSE ""
ContentOf(item) ==
    IF item.kind = "AttachmentInput"
    THEN (IF item.content.kind = "none" THEN "" ELSE item.content.text)
    ELSE IF "content" \in DOMAIN item.map THEN item.map["content"]
    ELSE ""

\* C26: when HumanInTheLoop.invoke is given no attachments or an empty list,
\* tasks.create receives attachments = None, never an empty list; when it is
\* given a non-empty list, tasks.create receives a list of the same length
\* whose k-th mapping comes from the k-th item given.
C26_EmptyMeansNoneElseSameShape ==
    \A i \in Invocations :
        (IsHitl /\ createCall[i] # Unset) =>
            LET given == invokeArgs[i].attachments
                sent == createCall[i].attachments
            IN  /\ sent # List(<<>>)
                /\ Falsy(given) <=> sent = None
                /\ ~Falsy(given) =>
                       /\ sent.kind = "list"
                       /\ Len(sent.items) = Len(given.items)
                       /\ \A k \in 1..Len(given.items) :
                              /\ sent.items[k].kind = "dict"
                              /\ FileNameOf(sent.items[k]) = FileNameOf(given.items[k])
                              /\ ContentOf(sent.items[k]) = ContentOf(given.items[k])

C26_Witness ==
    /\ frontend = "hitl"
    /\ invokeArgs[1].attachments = List(<<>>)
    /\ createCall[1] # Unset
    /\ createCall[1].attachments = None
    /\ backend.created = 1

\* A list of two different items arrives in the order given.
C26_OrderWitness ==
    /\ frontend = "hitl"
    /\ createCall[1] # Unset
    /\ invokeArgs[1].attachments.kind = "list"
    /\ Len(invokeArgs[1].attachments.items) = 2
    /\ invokeArgs[1].attachments.items[1].kind = "AttachmentInput"
    /\ FileNameOf(invokeArgs[1].attachments.items[2]) = "b.py"
    /\ FileNameOf(createCall[1].attachments.items[1]) = "a.py"
    /\ FileNameOf(createCall[1].attachments.items[2]) = "b.py"

\* C27: after every successful construction of HumanInTheLoop the stored
\* timeout is None or a strictly positive number of seconds, whatever the
\* timeout and max_credits arguments were, a derived default included; no
\* poll is made under a zero or negative deadline.
C27_StoredTimeoutNoneOrPositive ==
    (IsHitl /\ inst.state = "ready") =>
        \/ inst.timeout = None
        \/ inst.timeout.kind = "num" /\ inst.timeout.val > 0

\* C24: under the same finite positive deadline, poll interval, statuses and
\* clock readings the direct tool and HumanInTheLoop stop at the same poll.
\* The two loops take the same decision on every status and on every elapsed
\* time observed, and a run of either ends by the same rule: at the first
\* terminal status, or with TimeoutError at the first non-terminal poll whose
\* elapsed time exceeds the deadline. They differ in the formatting only: for
\* a terminal status other than completed the direct tool raises RuntimeError
\* where HumanInTheLoop returns the tag cancelled.
C24_SameStoppingPoll ==
    \A i \in Invocations :
        (inst.state = "ready" /\ inst.timeout.kind = "num" /\ inst.timeout.val > 0
            /\ Retrieves(i) >= 1 /\ ~IsBackendError(outcome[i])) =>
            LET D == inst.timeout.val
                seen == elapsedSeen[i]
                n == Len(seen)
                status == current[i].status
            IN  /\ HitlIsTerminal(status) = DirectIsTerminal(status)
                /\ \A k \in 1..n :
                       HitlDeadlineExceeded(inst.timeout, seen[k])
                           = DirectDeadlineExceeded(inst.timeout, seen[k])
                /\ \A k \in 1..(n - 1) : seen[k] <= D
                /\ TerminalStatus(status) =>
                       /\ pc[i] = "done" /\ FromFormatter(outcome[i])
                       /\ Retrieves(i) = n + 1
                       /\ EqualIgnoringCase(status, completed) => outcome[i].kind = "return"
                       /\ ~EqualIgnoringCase(status, completed) =>
                              IF frontend = "direct"
                              THEN outcome[i].kind = "raise" /\ outcome[i].exc = "RuntimeError"
                              ELSE outcome[i].kind = "return"
                                       /\ outcome[i].value.status = cancelled
                /\ (~TerminalStatus(status) /\ n = Retrieves(i)) =>
                       IF seen[n] > D
                       THEN pc[i] = "done" /\ IsTimeoutError(outcome[i])
                       ELSE pc[i] \in {"sleep", "retrieve"} /\ outcome[i] = NoOutcome
                /\ (~TerminalStatus(status) /\ n # Retrieves(i)) =>
                       /\ pc[i] = "deadline" /\ n = Retrieves(i) - 1
                       /\ outcome[i] = NoOutcome

C24_Witness ==
    /\ frontend = "direct"
    /\ inst.state = "ready"
    /\ inst.timeout = Num(5)
    /\ IsTimeoutError(outcome[1])
    /\ Retrieves(1) = 3
    /\ elapsedSeen[1][2] = 5
    /\ elapsedSeen[1][3] > 5

\* C30: every argument set the CLI accepts is accepted by the constructor
\* of HumanInTheLoop: once the arguments have passed the checks of main(), the
\* timeout resolution succeeds with None or a positive deadline, no
\* configuration ValueError is raised, and a derived default is greater than
\* 300 seconds.
C30_CliAcceptedIsConstructible ==
    (frontend = "cli" /\ cli.phase \notin {"start", "parsed"} /\ cli.exit # Num(2)) =>
        /\ inst.state = "ready"
        /\ \/ inst.timeout = None
           \/ inst.timeout.kind = "num" /\ inst.timeout.val > 0
        /\ argv.timeout = None =>
               inst.timeout.kind = "num" /\ inst.timeout.val > DEFAULT_TIMEOUT_BUFFER_SECONDS

\* What the caller of the entry point has in hand: the outcome of _run for
\* invoke, what the await delivered for ainvoke.
CallerResult(i) ==
    IF invokeArgs[i].entry = "invoke" THEN outcome[i] ELSE awaited[i]

\* The outcome of the synchronous flow for the arguments of the call and what
\* the backend and the clock answered: the TypeError of a bad attachment, the
\* error of a backend call, the formatted terminal task, or the TimeoutError
\* of the last elapsed time read.
SyncOutcome(i) ==
    LET payload == _normalize_attachments(invokeArgs[i].attachments)
    IN  IF ~payload.ok THEN Raised(payload.exc, <<>>)
        ELSE IF IsBackendError(outcome[i]) THEN Raised("BackendError", <<>>)
        ELSE IF Retrieves(i) >= 1 /\ TerminalStatus(current[i].status)
             THEN Returned(_format_hitl_result(current[i]))
        ELSE Raised("TimeoutError",
                    HitlTimeoutMessage(task[i].id, Last(elapsedSeen[i]), inst.timeout))

C31_CallTagElseInstanceTag ==
    /\ [](\A i \in Invocations :
             (IsHitl /\ createCall[i] # Unset) =>
                 /\ createCall[i].tag_id =
                        IF invokeArgs[i].tag_id = None THEN inst.tag_id
                        ELSE invokeArgs[i].tag_id
                 /\ createCall[i].max_credits = inst.max_credits
                 /\ inst = HitlInstance(ctorArgs))
    /\ [][(IsHitl /\ inst.state = "ready") =>
             /\ inst'.tag_id = inst.tag_id
             /\ inst'.timeout = inst.timeout
             /\ inst'.max_credits = inst.max_credits
             /\ inst'.poll_interval = inst.poll_interval]_vars

C31_Witness ==
    /\ inst.state = "ready"
    /\ inst.tag_id = Num(3)
    /\ invokeArgs[1].tag_id = Num(0)
    /\ invokeArgs[2].tag_id = None
    /\ pc[1] = "done" /\ pc[2] = "done"
    /\ createCall[1] # Unset /\ createCall[2] # Unset
    /\ createCall[1].tag_id = Num(0)
    /\ createCall[2].tag_id = Num(3)
    /\ createCall[1].id = Text("task_1")
    /\ createCall[2].id = Text("task_2")

====
